---------------------------- MODULE Spec2Model ----------------------------
(***************************************************************************)
(* Venue occupancy counter (liars-tally).                                  *)
(*                                                                         *)
(* The module holds these specifications over one set of variables:        *)
(*   SpecAgg   the dashboard's fetchIntervalStats (unnamed/part_003),      *)
(*             applied to every bounded, time-ordered content of the       *)
(*             entries table, in either season;                            *)
(*   SpecArch  the archive computation of handleReset, applied to the      *)
(*             same tables;                                                *)
(*   SpecDate  the date-scoped Live Counter (unnamed/part_004) with its    *)
(*             business-date resolution, at instants around midnight and   *)
(*             4 am;                                                       *)
(*   Spec      the archiving Live Counter (components/AdminDashboard.tsx,  *)
(*             lines 417-930): two clients, the entries table, the archive *)
(*             tables, change notifications and calls of handleReset in    *)
(*             flight;                                                     *)
(*   SpecLogger  the patching Live Counter (components/EntryLogger.tsx):   *)
(*             two clients, the entries table, the payloads of the change  *)
(*             notifications and calls of handleReset in flight.           *)
(*   SpecRefetch  the archiving Live Counter request by request: every     *)
(*             insert and every refetch is sent, carried out and answered  *)
(*             in separate steps;                                          *)
(*   SpecReduce  the reductions of the entries table side by side, on      *)
(*             tables that also hold session markers;                      *)
(*   SpecAuth  the login page and the admin page (unnamed/part_002);       *)
(*   SpecDash  the Historical Dashboard over time: dates are selected,     *)
(*             rows are written, notifications start fetchIntervalStats    *)
(*             and the answers arrive in any order;                        *)
(*   SpecMount  the patching Live Counter from its first render: the       *)
(*             connectivity check, the first fetch and the subscription;   *)
(*   SpecDateLive  the date-scoped Live Counter with its 30-second date    *)
(*             check, under fair scheduling of the clock, the timer and    *)
(*             the notifications;                                          *)
(*   SpecOverlap  the archiving Live Counter with a call of handleReset    *)
(*             started while another one is in flight;                     *)
(*   SpecSession  the session dashboard (components/Navigation.tsx): the   *)
(*             get-or-create of the session of the selected date.          *)
(*                                                                         *)
(* Time is counted in minutes.  A timestamp is a UTC minute count from     *)
(* 00:00Z of the selected date; venue-local time is derived from it with   *)
(* the offset of the season (EDT or EST).                                  *)
(*                                                                         *)
(* A handler that awaits one request is one step, with one action for the  *)
(* request succeeding and one for it failing.  handleReset awaits up to    *)
(* four requests and is one step per request.  SpecRefetch and SpecAuth    *)
(* take every request apart.                                               *)
(***************************************************************************)
EXTENDS Integers, Sequences, FiniteSets, TLC

VARIABLES
    \* ---- the external store -------------------------------------------
    entries,              \* table entries: rows in timestamp order
    historical_entries,   \* table historical_entries: archive summaries
    historical_intervals, \* table historical_intervals: archive breakdown
    \* ---- venue clock and platform -------------------------------------
    dst,                  \* TRUE: Toronto is on EDT (UTC-4); FALSE: EST (UTC-5)
    clock,                \* what new Date() returns, in minutes
    hourCycle,            \* how the platform prints the hour of midnight
    \* ---- Historical Dashboard (part_003) -------------------------------
    intervalStats,        \* useState<IntervalStats[]>
    peakStats,            \* useState<PeakStats>
    dashError,            \* useState error
    dashLoaded,           \* some run of fetchIntervalStats has got its rows
    selectedDate,         \* useState(getTodayInToronto()) of the dashboard
    dashRuns,             \* when a notification has started fetchIntervalStats
    \* ---- session dashboard (components/Navigation.tsx) -----------------
    currentSessionId,     \* useState<string>('')
    sessionLoads,         \* the session every run of fetchIntervalStats resolved to
    \* ---- pages behind the login (part_002) -----------------------------
    authSession,          \* the session of supabase.auth: "none" or a user id
    admins,               \* table admins: the role of every user, if any
    route,                \* the page the router shows
    loginPage,            \* LoginPage: isLoading, error and the call in flight
    adminPage,            \* AdminPage: isLoading and the answers checkAuth got
    \* ---- archive computation of handleReset applied as a function ------
    archStats,            \* stats of the last computation (<<>> before)
    archIntervals,        \* intervalData of the last computation
    \* ---- Live Counter, one component per client ------------------------
    currentCount,         \* useState<CountState>
    errorMessage,         \* useState<string | null>
    isLoading,            \* useState(false)
    showResetConfirm,     \* useState(false)
    subscription,         \* the filter of the client's change subscription
    isConnected,          \* useState(true), set by checkConnection
    notifications,        \* change notifications published, not yet delivered
    today,                \* what getTodayInToronto returned last, and when
    tasks,                \* requests and calls of handleReset in flight
    \* ---- bookkeeping ----------------------------------------------------
    inserts,              \* rows inserted into entries so far
    failures,             \* requests that have failed so far
    resetCalls,           \* calls of handleReset so far
    failedResets          \* the calls of handleReset that ended in catch

storeVars == <<entries, historical_entries, historical_intervals>>
authVars == <<authSession, admins, route, loginPage, adminPage>>
sessionVars == <<currentSessionId, sessionLoads>>
pageVars == <<selectedDate, dashRuns, sessionVars, authVars>>
aggVars == <<intervalStats, peakStats, dashError, dashLoaded,
             archStats, archIntervals, pageVars>>
platformVars == <<dst, hourCycle>>
clientVars == <<currentCount, errorMessage, isLoading, showResetConfirm,
                subscription, isConnected, notifications, today>>
resetVars == <<tasks, resetCalls, failedResets>>
liveVars == <<clock, clientVars, resetVars, inserts, failures>>
vars == <<storeVars, platformVars, aggVars, liveVars>>

Max(a, b) == IF a >= b THEN a ELSE b

--------------------------------------------------------------------------
(* Bounds of the model *)

\* longest entries table drawn for the aggregation functions
MaxLen == 3

(* Events *)

Genders == {"male", "female"}
EntryTypes == {"entry", "exit"}

\* UTC minutes after 00:00Z of the selected date.  With EDT these are 16:05,
\* 16:07, 16:20, 02:10 (next day) and 03:10 (next day) venue-local; with EST
\* they are 15:05, 15:07, 15:20, 01:10 and 02:10.
Timestamps == {1205, 1207, 1220, 1810, 1870}

Rows == [gender : Genders, type : EntryTypes, timestamp : Timestamps]

\* all time-ordered tables of at most n rows
OrderedTables(n) ==
    UNION { { s \in [1..k -> Rows] :
                \A i \in 1..(k-1) : s[i].timestamp <= s[i+1].timestamp }
            : k \in 0..n }

--------------------------------------------------------------------------
(* Venue-local time: toLocaleString('en-US', {timeZone: 'America/Toronto'}) *)

UtcOffset == IF dst THEN -240 ELSE -300
LocalMinutes(ts) == ts + UtcOffset
\* getHours() and getMinutes() of the venue-local wall clock
LocalHour(ts) == (LocalMinutes(ts) \div 60) % 24
LocalMinute(ts) == LocalMinutes(ts) % 60


--------------------------------------------------------------------------
(* fetchIntervalStats of the Historical Dashboard (unnamed/part_003)      *)

\* new Date(`${selectedDate}T16:00:00-04:00`) as UTC minutes of the date
WindowStart == 1200
\* new Date(`${selectedDate}T03:00:00-04:00`), then setDate(getDate() + 1)
WindowEnd == 1860

\* .gte('timestamp', startDate).lt('timestamp', endDate).order('timestamp')
QueryWindow(table) ==
    SelectSeq(table, LAMBDA r : r.timestamp >= WindowStart /\ r.timestamp < WindowEnd)

\* data.reduce(...): +1 for an entry, Math.max(0, total - 1) otherwise
RECURSIVE TotalInsideUpTo(_, _)
TotalInsideUpTo(data, n) ==
    IF n = 0 THEN 0
    ELSE LET total == TotalInsideUpTo(data, n - 1)
         IN  IF data[n].type = "entry" THEN total + 1 ELSE Max(0, total - 1)

TotalInside(data) == TotalInsideUpTo(data, Len(data))

\* the label `${hh}:${mm}` as the pair <<hour, minute>>; '-' is NoTime
Label(hour, minute) == <<hour, minute>>
NoTime == <<>>
\* parseInt(a.split(':')[0])
LabelHour(label) == label[1]

BucketWidth == 15
EveningFrom == 16
EveningBefore == 24
NightFrom == 0
NightLast == 3

\* for (let minute = 0; minute < 60; minute += 15)
QuarterMinutes == [i \in 1..(60 \div BucketWidth) |-> (i - 1) * BucketWidth]

\* for (let hour = 16; hour < 24; hour++)
EveningHours == [i \in 1..(EveningBefore - EveningFrom) |-> EveningFrom + i - 1]
\* for (let hour = 0; hour <= 3; hour++)
NightHours == [i \in 1..(NightLast - NightFrom + 1) |-> NightFrom + i - 1]

\* the labels one pair of nested loops assigns, in assignment order
LabelsOfHours(hours) ==
    LET q == Len(QuarterMinutes)
    IN  [k \in 1..(Len(hours) * q) |->
            Label(hours[((k - 1) \div q) + 1], QuarterMinutes[((k - 1) % q) + 1])]

\* the keys of the object `intervals` in insertion order (Object.entries order)
GridLabels == LabelsOfHours(EveningHours) \o LabelsOfHours(NightHours)

EmptyBucket(label) ==
    [interval |-> label, totalEntries |-> 0, totalExits |-> 0,
     maleEntries |-> 0, maleExits |-> 0, femaleEntries |-> 0, femaleExits |-> 0,
     runningTotal |-> 0]

InitialIntervals == [k \in 1..Len(GridLabels) |-> EmptyBucket(GridLabels[k])]

\* a variant that keeps the minute as it is instead of flooring it to the quarter
IntervalStrUnfloored(entry) ==
    Label(LocalHour(entry.timestamp), LocalMinute(entry.timestamp))

\* the interval string of one entry: its local hour and Math.floor(min / 15) * 15
IntervalStr(entry) ==
    Label(LocalHour(entry.timestamp),
          (LocalMinute(entry.timestamp) \div BucketWidth) * BucketWidth)

\* the body of data.forEach: if (intervals[intervalStr]) { ... }
Accumulate(intervals, entry) ==
    LET hit == { k \in 1..Len(intervals) : intervals[k].interval = IntervalStr(entry) }
    IN  IF hit = {} THEN intervals
        ELSE LET k == CHOOSE i \in hit : TRUE
                 b == intervals[k]
                 nb == IF entry.type = "entry"
                       THEN IF entry.gender = "male"
                            THEN [b EXCEPT !.totalEntries = @ + 1, !.maleEntries = @ + 1]
                            ELSE [b EXCEPT !.totalEntries = @ + 1, !.femaleEntries = @ + 1]
                       ELSE IF entry.gender = "male"
                            THEN [b EXCEPT !.totalExits = @ + 1, !.maleExits = @ + 1]
                            ELSE [b EXCEPT !.totalExits = @ + 1, !.femaleExits = @ + 1]
             IN  [intervals EXCEPT ![k] = nb]

RECURSIVE AccumulateUpTo(_, _)
AccumulateUpTo(data, n) ==
    IF n = 0 THEN InitialIntervals
    ELSE Accumulate(AccumulateUpTo(data, n - 1), data[n])

\* a comparator key that leaves the hours after midnight where they are
AdjustedHourPlain(label) == LabelHour(label)

\* hourA < 4 ? hourA + 24 : hourA
AdjustedHour(label) ==
    IF LabelHour(label) < 4 THEN LabelHour(label) + 24 ELSE LabelHour(label)

\* Array.prototype.sort with the comparator adjustedHourA - adjustedHourB is a
\* stable sort: an entry moves behind the entries with a smaller adjusted hour
\* and behind the earlier entries with the same adjusted hour
SortRank(keys, i) ==
    Cardinality({ j \in 1..Len(keys) :
        \/ AdjustedHour(keys[j]) < AdjustedHour(keys[i])
        \/ AdjustedHour(keys[j]) = AdjustedHour(keys[i]) /\ j < i }) + 1

\* the order in which sort leaves the entries of `intervals`
SortedOrder ==
    [k \in 1..Len(GridLabels) |->
        CHOOSE i \in 1..Len(GridLabels) : SortRank(GridLabels, i) = k]

\* Object.entries(intervals).sort(...).map(... runningTotal: totalInside)
StatsArray(intervals, totalInside) ==
    [k \in 1..Len(intervals) |->
        [intervals[SortedOrder[k]] EXCEPT !.runningTotal = totalInside]]

PeakCategories ==
    [totalPeakEntries |-> "totalEntries", totalPeakExits |-> "totalExits",
     malePeakEntries |-> "maleEntries", malePeakExits |-> "maleExits",
     femalePeakEntries |-> "femaleEntries", femalePeakExits |-> "femaleExits"]

\* the initial value of the reduce, and of useState<PeakStats>
InitialPeaks == [c \in DOMAIN PeakCategories |-> [count |-> 0, time |-> NoTime]]

\* a variant whose comparison is >= : the last bucket that ties takes the peak
PeakStepLastWins(peak, interval, field) ==
    IF interval[field] >= peak.count
    THEN [count |-> interval[field], time |-> interval.interval]
    ELSE peak

\* if (interval.X > peaks.P.count) peaks.P = {count: interval.X, time: interval.interval}
PeakStep(peak, interval, field) ==
    IF interval[field] > peak.count
    THEN [count |-> interval[field], time |-> interval.interval]
    ELSE peak

\* the reduce over the buckets lo..hi in array order, from the accumulator
\* `peak`.  The range is taken in two halves, and the accumulator the first
\* half leaves is bound to its value before the second half is taken.
RECURSIVE PeakFold(_, _, _, _, _)
PeakFold(statsArray, field, peak, lo, hi) ==
    IF lo > hi THEN peak
    ELSE IF lo = hi THEN PeakStep(peak, statsArray[lo], field)
    ELSE LET mid == (lo + hi) \div 2
         IN  CHOOSE result \in
                 { PeakFold(statsArray, field, first, mid + 1, hi) :
                     first \in { PeakFold(statsArray, field, peak, lo, mid) } } : TRUE

PeakUpTo(statsArray, field, n) ==
    PeakFold(statsArray, field, [count |-> 0, time |-> NoTime], 1, n)

\* statsArray.reduce((peaks, interval) => ..., {...})
ComputePeaks(statsArray) ==
    [c \in DOMAIN PeakCategories |->
        PeakUpTo(statsArray, PeakCategories[c], Len(statsArray))]

\* One run of fetchIntervalStats whose query returns an error: setError(...)
\* and return, the interval and peak state stay as they were.
FetchIntervalStatsError ==
    /\ dashError' = TRUE
    /\ UNCHANGED <<storeVars, platformVars, liveVars, intervalStats, peakStats,
                   dashLoaded, archStats, archIntervals, pageVars>>

\* One run of fetchIntervalStats whose query returns the rows of the window,
\* from the query to the state updates.
FetchIntervalStatsRows ==
    /\ LET data == QueryWindow(entries)
           statsArray == StatsArray(AccumulateUpTo(data, Len(data)), TotalInside(data))
       IN  IF Len(data) = 0
           THEN /\ intervalStats' = <<>>
                /\ UNCHANGED peakStats
           ELSE /\ intervalStats' = statsArray
                /\ peakStats' = ComputePeaks(intervalStats')
    /\ dashError' = FALSE
    /\ dashLoaded' = TRUE
    /\ UNCHANGED <<storeVars, platformVars, liveVars, archStats, archIntervals,
                   pageVars>>

--------------------------------------------------------------------------
(* The archive computation of handleReset                                  *)
(* (components/AdminDashboard.tsx, lines 611-733)                          *)

ZeroStats ==
    [total_entries |-> 0, total_exits |-> 0, male_entries |-> 0,
     male_exits |-> 0, female_entries |-> 0, female_exits |-> 0]

\* a variant that counts every row as an entry
StatsStepAllEntries(acc, entry) ==
    IF entry.gender = "male"
    THEN [acc EXCEPT !.total_entries = @ + 1, !.male_entries = @ + 1]
    ELSE [acc EXCEPT !.total_entries = @ + 1, !.female_entries = @ + 1]

\* the reducer of currentEntries.reduce(...) for the summary statistics
StatsStep(acc, entry) ==
    IF entry.type = "entry"
    THEN IF entry.gender = "male"
         THEN [acc EXCEPT !.total_entries = @ + 1, !.male_entries = @ + 1]
         ELSE IF entry.gender = "female"
              THEN [acc EXCEPT !.total_entries = @ + 1, !.female_entries = @ + 1]
              ELSE [acc EXCEPT !.total_entries = @ + 1]
    ELSE IF entry.type = "exit"
         THEN IF entry.gender = "male"
              THEN [acc EXCEPT !.total_exits = @ + 1, !.male_exits = @ + 1]
              ELSE IF entry.gender = "female"
                   THEN [acc EXCEPT !.total_exits = @ + 1, !.female_exits = @ + 1]
                   ELSE [acc EXCEPT !.total_exits = @ + 1]
         ELSE acc

RECURSIVE StatsUpTo(_, _)
StatsUpTo(currentEntries, n) ==
    IF n = 0 THEN ZeroStats
    ELSE StatsStep(StatsUpTo(currentEntries, n - 1), currentEntries[n])

ArchiveStats(currentEntries) == StatsUpTo(currentEntries, Len(currentEntries))

\* intervalStart: the timestamp with setMinutes(Math.floor(minutes / 15) * 15, 0, 0)
IntervalStart(entry) == (entry.timestamp \div BucketWidth) * BucketWidth
\* intervalEnd: setMinutes(intervalMinutes + 14, 59, 999), to the minute
IntervalEnd(entry) == IntervalStart(entry) + BucketWidth - 1

\* a variant without the floor at 0
RunningStepUnclamped(runningTotal, entry) ==
    IF entry.type = "entry" THEN runningTotal + 1
    ELSE IF entry.type = "exit" THEN runningTotal - 1
    ELSE runningTotal

\* runningTotal++ for an entry, Math.max(0, runningTotal - 1) for an exit
RunningStep(runningTotal, entry) ==
    IF entry.type = "entry" THEN runningTotal + 1
    ELSE IF entry.type = "exit" THEN Max(0, runningTotal - 1)
    ELSE runningTotal

\* the body of currentEntries.forEach on the Map `intervals` (a sequence in
\* insertion order) and the variable runningTotal
IntervalStep(st, entry) ==
    LET key == IntervalStart(entry)
        known == { k \in 1..Len(st.intervals) : st.intervals[k].start = key }
        withKey == IF known = {}
                   THEN Append(st.intervals,
                               [start |-> key, end |-> IntervalEnd(entry),
                                running_total |-> 0] @@ ZeroStats)
                   ELSE st.intervals
        k == CHOOSE i \in 1..Len(withKey) : withKey[i].start = key
        rt == RunningStep(st.runningTotal, entry)
        counted == StatsStep(withKey[k], entry)
    IN  [intervals |-> [withKey EXCEPT ![k] = [counted EXCEPT !.running_total = rt]],
         runningTotal |-> rt]

RECURSIVE IntervalsUpTo(_, _)
IntervalsUpTo(currentEntries, n) ==
    IF n = 0 THEN [intervals |-> <<>>, runningTotal |-> 0]
    ELSE IntervalStep(IntervalsUpTo(currentEntries, n - 1), currentEntries[n])

\* Array.from(intervals.values()), before historical_entry_id is attached
ArchiveIntervals(currentEntries) ==
    IntervalsUpTo(currentEntries, Len(currentEntries)).intervals

\* The archive computation applied to the whole table, as handleReset applies
\* it to the rows it fetched (it computes nothing for an empty table).
ArchiveCompute ==
    /\ archStats = <<>>
    /\ Len(entries) > 0
    /\ archStats' = <<ArchiveStats(entries)>>
    /\ archIntervals' = ArchiveIntervals(entries)
    /\ UNCHANGED <<storeVars, platformVars, liveVars,
                   intervalStats, peakStats, dashError, dashLoaded, pageVars>>

--------------------------------------------------------------------------
(* SpecAgg: the aggregation functions on every bounded table               *)

\* the dashboard before its first fetch, and no archive computed
NoAggregation ==
    /\ intervalStats = <<>>
    /\ peakStats = InitialPeaks
    /\ dashError = FALSE
    /\ dashLoaded = FALSE
    /\ archStats = <<>>
    /\ archIntervals = <<>>

\* the session dashboard is not open
NoSession ==
    /\ currentSessionId = <<>>
    /\ sessionLoads = <<>>

\* no dashboard has resolved its default date and no AdminPage is open
NoPages ==
    /\ selectedDate = <<>>
    /\ dashRuns = <<>>
    /\ NoSession
    /\ authSession = "none"
    /\ admins = <<>>
    /\ route = "/"
    /\ loginPage = <<>>
    /\ adminPage = <<>>

\* no Live Counter is open
NoClients ==
    /\ clock = 0
    /\ hourCycle = "h23"
    /\ currentCount = <<>>
    /\ errorMessage = <<>>
    /\ isLoading = <<>>
    /\ showResetConfirm = <<>>
    /\ subscription = <<>>
    /\ isConnected = <<>>
    /\ notifications = <<>>
    /\ today = <<>>
    /\ tasks = {}
    /\ inserts = 0
    /\ failures = 0
    /\ resetCalls = 0
    /\ failedResets = {}

InitAgg ==
    /\ entries \in OrderedTables(MaxLen)
    /\ historical_entries = <<>>
    /\ historical_intervals = <<>>
    /\ dst \in BOOLEAN
    /\ NoAggregation
    /\ NoPages
    /\ NoClients

NextAgg == FetchIntervalStatsError \/ FetchIntervalStatsRows

SpecAgg == InitAgg /\ [][NextAgg]_vars

(* SpecArch: the archive computation on every bounded table (the season    *)
(* plays no part in it)                                                     *)

InitArch == InitAgg /\ dst = TRUE

NextArch == ArchiveCompute

SpecArch == InitArch /\ [][NextArch]_vars


--------------------------------------------------------------------------
(* The archiving Live Counter                                              *)
(* (components/AdminDashboard.tsx, lines 417-930: EntryLogger)             *)

Clients == {"c1", "c2"}

\* rows inserted into entries in one behaviour
MaxInserts == 2
\* calls of handleReset in one behaviour
MaxResets == 1
\* requests that fail in one behaviour
MaxFailures == 1
\* change notifications a client can have waiting; further ones merge into them
MaxPending == 1

\* the instants at which the Live Counter is used: 16:05 and 20:30 EDT
LiveTimes == {1205, 1470}

Null == "null"
EntryError == "Error logging entry"
FetchError == "Error fetching current count"
ResetError == "Error resetting counts"

\* a seed of the reductions that is not zero
OneCount == [male |-> 1, female |-> 0]
ZeroCount == [male |-> 0, female |-> 0]

\* time passes
Tick(times) ==
    /\ \E t \in times : t > clock /\ clock' = t
    /\ UNCHANGED <<storeVars, platformVars, aggVars, clientVars, resetVars,
                   inserts, failures>>

\* a change of k rows of entries is published to the subscribers `to`
Published(to, k) ==
    [c \in DOMAIN notifications |->
        IF c \in to
        THEN IF notifications[c] + k > MaxPending THEN MaxPending
             ELSE notifications[c] + k
        ELSE notifications[c]]

\* the reducer of fetchCurrentCounts
CountStep(acc, entry) ==
    IF entry.type = "entry" \/ entry.type = "exit"
    THEN LET change == IF entry.type = "entry" THEN 1 ELSE -1
         IN  IF entry.gender = "male" THEN [acc EXCEPT !.male = @ + change]
             ELSE IF entry.gender = "female" THEN [acc EXCEPT !.female = @ + change]
             ELSE acc
    ELSE acc

RECURSIVE CountsUpTo(_, _)
CountsUpTo(rows, n) ==
    IF n = 0 THEN ZeroCount ELSE CountStep(CountsUpTo(rows, n - 1), rows[n])

\* entries.reduce(..., {male: 0, female: 0})
ReduceCounts(rows) == CountsUpTo(rows, Len(rows))

\* the postgres_changes callback: fetchCurrentCounts gets the rows
OnChange(c) ==
    /\ notifications[c] > 0
    /\ notifications' = [notifications EXCEPT ![c] = @ - 1]
    /\ currentCount' = [currentCount EXCEPT ![c] = ReduceCounts(entries)]
    /\ UNCHANGED <<storeVars, platformVars, aggVars, clock, errorMessage, isLoading,
                   showResetConfirm, subscription, isConnected, today, resetVars, inserts,
                   failures>>

\* the postgres_changes callback: the query of fetchCurrentCounts fails
OnChangeFails(c) ==
    /\ notifications[c] > 0
    /\ failures < MaxFailures
    /\ failures' = failures + 1
    /\ notifications' = [notifications EXCEPT ![c] = @ - 1]
    /\ errorMessage' = [errorMessage EXCEPT ![c] = FetchError]
    /\ UNCHANGED <<storeVars, platformVars, aggVars, clock, currentCount, isLoading,
                   showResetConfirm, subscription, isConnected, today, resetVars, inserts>>

\* prev + (type === 'entry' ? 1 : -1)
Delta(type) == IF type = "entry" THEN 1 ELSE -1

\* handleEntry, the insert succeeds.  The buttons are disabled while isLoading,
\* the exit button also while the gender's count is <= 0.
HandleEntry(c, gender, type) ==
    /\ ~isLoading[c]
    /\ type = "exit" => currentCount[c][gender] > 0
    /\ inserts < MaxInserts
    /\ inserts' = inserts + 1
    /\ entries' = Append(entries, [id |-> inserts + 1, gender |-> gender,
                                   type |-> type, timestamp |-> clock])
    /\ notifications' = Published(Clients, 1)
    /\ errorMessage' = [errorMessage EXCEPT ![c] = Null]
    /\ currentCount' = [currentCount EXCEPT ![c][gender] = Max(0, @ + Delta(type))]
    /\ UNCHANGED <<historical_entries, historical_intervals, platformVars, aggVars,
                   clock, isLoading, showResetConfirm, subscription, isConnected, today,
                   resetVars, failures>>

\* handleEntry, the insert fails
HandleEntryFails(c, gender, type) ==
    /\ ~isLoading[c]
    /\ type = "exit" => currentCount[c][gender] > 0
    /\ failures < MaxFailures
    /\ failures' = failures + 1
    /\ errorMessage' = [errorMessage EXCEPT ![c] = EntryError]
    /\ UNCHANGED <<storeVars, platformVars, aggVars, clock, currentCount, isLoading,
                   showResetConfirm, subscription, isConnected, notifications, today,
                   resetVars, inserts>>

\* the button "Reset Counter": setShowResetConfirm(true)
OpenResetConfirm(c) ==
    /\ ~showResetConfirm[c]
    /\ resetCalls < MaxResets
    /\ showResetConfirm' = [showResetConfirm EXCEPT ![c] = TRUE]
    /\ UNCHANGED <<storeVars, platformVars, aggVars, clock, currentCount,
                   errorMessage, isLoading, subscription, isConnected, notifications, today,
                   resetVars, inserts, failures>>

\* the button "Cancel" of the modal: setShowResetConfirm(false)
CancelResetConfirm(c) ==
    /\ showResetConfirm[c]
    /\ showResetConfirm' = [showResetConfirm EXCEPT ![c] = FALSE]
    /\ UNCHANGED <<storeVars, platformVars, aggVars, clock, currentCount,
                   errorMessage, isLoading, subscription, isConnected, notifications, today,
                   resetVars, inserts, failures>>

(* handleReset.  A call is a task that moves from one awaited request to    *)
(* the next; each request is carried out by the store when it is issued.   *)

\* catch and finally of handleReset
Catch(t) ==
    /\ errorMessage' = [errorMessage EXCEPT ![t.client] = ResetError]
    /\ isLoading' = [isLoading EXCEPT ![t.client] = FALSE]
    /\ tasks' = tasks \ {t}
    /\ failedResets' = failedResets \cup
                         {[id |-> t.id, client |-> t.client, step |-> t.step,
                           historicalEntry |-> t.historicalEntry]}
    /\ failures' = failures + 1
    /\ UNCHANGED <<currentCount, showResetConfirm>>

\* "Reset UI state" and finally
Finish(t) ==
    /\ showResetConfirm' = [showResetConfirm EXCEPT ![t.client] = FALSE]
    /\ currentCount' = [currentCount EXCEPT ![t.client] = ZeroCount]
    /\ isLoading' = [isLoading EXCEPT ![t.client] = FALSE]
    /\ tasks' = tasks \ {t}
    /\ UNCHANGED <<errorMessage, failedResets, failures>>

\* the call as the button "Reset" of the modal makes it, with the render's
\* currentCount in its closure
NewTask(c) ==
    [id |-> resetCalls + 1, client |-> c, step |-> "fetched",
     finalCount |-> currentCount[c].male + currentCount[c].female,
     currentEntries |-> entries, historicalEntry |-> 0]

\* handleReset up to the answer of the first request: the rows of entries
HandleReset(c) ==
    /\ showResetConfirm[c]
    /\ resetCalls < MaxResets
    /\ resetCalls' = resetCalls + 1
    /\ isLoading' = [isLoading EXCEPT ![c] = TRUE]
    /\ errorMessage' = [errorMessage EXCEPT ![c] = Null]
    /\ tasks' = tasks \cup {NewTask(c)}
    /\ UNCHANGED <<storeVars, platformVars, aggVars, clock, currentCount,
                   showResetConfirm, subscription, isConnected, notifications, today,
                   failedResets, inserts, failures>>

\* handleReset, the first request fails
HandleResetFails(c) ==
    /\ showResetConfirm[c]
    /\ resetCalls < MaxResets
    /\ failures < MaxFailures
    /\ resetCalls' = resetCalls + 1
    /\ Catch([NewTask(c) EXCEPT !.step = "called"])
    /\ UNCHANGED <<storeVars, platformVars, aggVars, clock, subscription, isConnected,
                   notifications, today, inserts>>

\* the row of historical_entries, without its columns date and end_time;
\* `archived` is not a column: it records the rows the summary was computed from
HistoricalEntry(t) ==
    [id |-> Len(historical_entries) + 1,
     start_time |-> t.currentEntries[1].timestamp,
     final_count |-> t.finalCount,
     archived |-> t.currentEntries] @@ ArchiveStats(t.currentEntries)

\* intervalData: the intervals with historical_entry_id
IntervalData(t) ==
    LET intervals == ArchiveIntervals(t.currentEntries)
    IN  [k \in 1..Len(intervals) |->
            [historical_entry_id |-> t.historicalEntry,
             interval_start |-> intervals[k].start,
             interval_end |-> intervals[k].end,
             total_entries |-> intervals[k].total_entries,
             total_exits |-> intervals[k].total_exits,
             male_entries |-> intervals[k].male_entries,
             male_exits |-> intervals[k].male_exits,
             female_entries |-> intervals[k].female_entries,
             female_exits |-> intervals[k].female_exits,
             running_total |-> intervals[k].running_total]]

\* the calls of handleReset by client c that wait at the given step
TasksAt(c, step) == { t \in tasks : t.client = c /\ t.step = step }

\* no rows were fetched: nothing is archived and the UI state is reset
ResetNothingToArchive(c) ==
    \E t \in TasksAt(c, "fetched") :
        /\ Len(t.currentEntries) = 0
        /\ Finish(t)
        /\ UNCHANGED <<storeVars, platformVars, aggVars, clock, subscription, isConnected,
                       notifications, today, resetCalls, inserts>>

\* rows were fetched: the summary is computed and inserted
ResetArchive(c) ==
    \E t \in TasksAt(c, "fetched") :
        /\ Len(t.currentEntries) > 0
        /\ historical_entries' = Append(historical_entries, HistoricalEntry(t))
        /\ tasks' = (tasks \ {t}) \cup
                      {[t EXCEPT !.step = "archived",
                                 !.historicalEntry = Len(historical_entries) + 1]}
        /\ UNCHANGED <<entries, historical_intervals, platformVars, aggVars, clock,
                       clientVars, resetCalls, failedResets, inserts, failures>>

\* the insert into historical_entries fails
ResetArchiveFails(c) ==
    \E t \in TasksAt(c, "fetched") :
        /\ Len(t.currentEntries) > 0
        /\ failures < MaxFailures
        /\ Catch(t)
        /\ UNCHANGED <<storeVars, platformVars, aggVars, clock, subscription, isConnected,
                       notifications, today, resetCalls, inserts>>

\* the intervals are computed and inserted into historical_intervals
ResetIntervals(c) ==
    \E t \in TasksAt(c, "archived") :
        /\ historical_intervals' = historical_intervals \o IntervalData(t)
        /\ tasks' = (tasks \ {t}) \cup {[t EXCEPT !.step = "intervals"]}
        /\ UNCHANGED <<entries, historical_entries, platformVars, aggVars, clock,
                       clientVars, resetCalls, failedResets, inserts, failures>>

\* the insert into historical_intervals fails
ResetIntervalsFails(c) ==
    \E t \in TasksAt(c, "archived") :
        /\ failures < MaxFailures
        /\ Catch(t)
        /\ UNCHANGED <<storeVars, platformVars, aggVars, clock, subscription, isConnected,
                       notifications, today, resetCalls, inserts>>

\* delete().gte('timestamp', '1970-01-01') removes every row; the UI state
\* is reset
ResetDelete(c) ==
    \E t \in TasksAt(c, "intervals") :
        /\ entries' = <<>>
        /\ notifications' = Published(Clients, Len(entries))
        /\ Finish(t)
        /\ UNCHANGED <<historical_entries, historical_intervals, platformVars, aggVars,
                       clock, subscription, isConnected, today, resetCalls, inserts>>

\* the delete fails
ResetDeleteFails(c) ==
    \E t \in TasksAt(c, "intervals") :
        /\ failures < MaxFailures
        /\ Catch(t)
        /\ UNCHANGED <<storeVars, platformVars, aggVars, clock, subscription, isConnected,
                       notifications, today, resetCalls, inserts>>

\* the tables the clients find when they mount: empty, or one guest inside
InitialTables ==
    {<<>>} \cup { <<[id |-> 0, gender |-> g, type |-> "entry", timestamp |-> 1205]>> :
                     g \in Genders }

\* two clients have mounted: the connectivity check and the first
\* fetchCurrentCounts have answered, the subscriptions are open
Init ==
    /\ entries \in InitialTables
    /\ historical_entries = <<>>
    /\ historical_intervals = <<>>
    /\ dst = TRUE
    /\ hourCycle = "h23"
    /\ NoAggregation
    /\ NoPages
    /\ clock = 1205
    /\ currentCount = [c \in Clients |-> ReduceCounts(entries)]
    /\ errorMessage = [c \in Clients |-> Null]
    /\ isLoading = [c \in Clients |-> FALSE]
    /\ showResetConfirm = [c \in Clients |-> FALSE]
    /\ subscription = [c \in Clients |-> "*"]
    /\ isConnected = [c \in Clients |-> TRUE]
    /\ notifications = [c \in Clients |-> 0]
    /\ today = <<>>
    /\ tasks = {}
    /\ inserts = 0
    /\ failures = 0
    /\ resetCalls = 0
    /\ failedResets = {}

Next ==
    \/ Tick(LiveTimes)
    \/ \E c \in Clients :
          \/ OnChange(c)
          \/ OnChangeFails(c)
          \/ \E gender \in Genders, type \in EntryTypes :
                \/ HandleEntry(c, gender, type)
                \/ HandleEntryFails(c, gender, type)
          \/ OpenResetConfirm(c)
          \/ CancelResetConfirm(c)
          \/ HandleReset(c)
          \/ HandleResetFails(c)
          \/ ResetNothingToArchive(c)
          \/ ResetArchive(c)
          \/ ResetArchiveFails(c)
          \/ ResetIntervals(c)
          \/ ResetIntervalsFails(c)
          \/ ResetDelete(c)
          \/ ResetDeleteFails(c)

Spec == Init /\ [][Next]_vars

--------------------------------------------------------------------------
(* Overlapping resets.  The button "Reset" of the modal has no disabled    *)
(* attribute and the modal stays open until a call has ended with success, *)
(* so the button can be pressed while a call of handleReset is in flight,  *)
(* on the same tab or on another one.                                      *)

\* calls of handleReset started while another call is in flight
MaxOverlaps == 1

\* handleReset up to the answer of its first request, called while another
\* call has not ended
HandleResetOverlap(c) ==
    /\ showResetConfirm[c]
    /\ tasks # {}
    /\ resetCalls < MaxResets + MaxOverlaps
    /\ resetCalls' = resetCalls + 1
    /\ isLoading' = [isLoading EXCEPT ![c] = TRUE]
    /\ errorMessage' = [errorMessage EXCEPT ![c] = Null]
    /\ tasks' = tasks \cup {NewTask(c)}
    /\ UNCHANGED <<storeVars, platformVars, aggVars, clock, currentCount,
                   showResetConfirm, subscription, isConnected, notifications, today,
                   failedResets, inserts, failures>>

NextOverlap ==
    \E c \in Clients :
        \/ OnChange(c)
        \/ \E gender \in Genders, type \in EntryTypes : HandleEntry(c, gender, type)
        \/ OpenResetConfirm(c)
        \/ HandleReset(c)
        \/ HandleResetOverlap(c)
        \/ ResetNothingToArchive(c)
        \/ ResetArchive(c)
        \/ ResetIntervals(c)
        \/ ResetDelete(c)

SpecOverlap == Init /\ [][NextOverlap]_vars

--------------------------------------------------------------------------
(* The date-scoped Live Counter (unnamed/part_004: EntryLogger)            *)

\* the tab of the date-scoped Live Counter
DateClients == {"c1"}

\* The instants at which it is used, in UTC minutes.  With EDT they are 23:59,
\* 00:00, 01:00, 02:59, 03:59, 04:00 and 05:00 venue-local; with EST they are
\* 22:59, 23:00, 00:00, 01:59, 02:59, 03:00 and 04:00.
DateTimes == {3119, 3120, 3180, 3299, 3359, 3360, 3420}

\* Intl prints the hour of midnight as 0 with the hour cycle h23 and as 24
\* with h24; which one hour12: false selects for en-US depends on the engine
HourCycles == {"h23", "h24"}

MinutesPerDay == 1440

\* toLocaleDateString('en-CA', {timeZone: 'America/Toronto', ...}): the
\* venue's calendar date, as a day number
TorontoDate(t) == LocalMinutes(t) \div MinutesPerDay

\* toLocaleString('en-US', {timeZone: 'America/Toronto', hour: 'numeric',
\* hour12: false}): the digits of the venue's hour
TorontoHours(t) ==
    LET shown == IF LocalHour(t) = 0 /\ hourCycle = "h24" THEN 24 ELSE LocalHour(t)
    IN  <<shown \div 10, shown % 10>>

\* parseInt of a string of decimal digits
RECURSIVE ParseIntUpTo(_, _)
ParseIntUpTo(digits, n) ==
    IF n = 0 THEN 0 ELSE 10 * ParseIntUpTo(digits, n - 1) + digits[n]

ParseInt(digits) == ParseIntUpTo(digits, Len(digits))

CutoverHour == 4

\* new Date(now) with setDate(getDate() - 1): the same time one day earlier
\* (no change of season lies between the two)
PrevDay(t) == t - MinutesPerDay

\* getTodayInToronto at the instant t
GetTodayInToronto(t) ==
    IF ParseInt(TorontoHours(t)) < CutoverHour
    THEN TorontoDate(PrevDay(t))
    ELSE TorontoDate(t)

\* entryDate of handleEntry at the instant t
EntryDate(t) ==
    LET torontoDate == TorontoDate(t)
        torontoHours == ParseInt(TorontoHours(t))
    IN  IF torontoHours < CutoverHour THEN TorontoDate(PrevDay(t)) ELSE torontoDate

\* .eq('date', today)
RowsOfDate(rows, date) == SelectSeq(rows, LAMBDA r : r.date = date)

\* the subscribers whose filter date=eq.<date> lets a row of that date pass
SubscribersOf(date) == { c \in DOMAIN subscription : subscription[c] = date }

\* the postgres_changes callback: fetchCurrentCounts gets today's rows
OnChangeDated(c) ==
    /\ notifications[c] > 0
    /\ notifications' = [notifications EXCEPT ![c] = @ - 1]
    /\ today' = [today EXCEPT ![c] = [at |-> clock, date |-> GetTodayInToronto(clock)]]
    /\ currentCount' = [currentCount EXCEPT ![c] =
                           ReduceCounts(RowsOfDate(entries, GetTodayInToronto(clock)))]
    /\ UNCHANGED <<storeVars, platformVars, aggVars, clock, errorMessage, isLoading,
                   showResetConfirm, subscription, isConnected, resetVars, inserts, failures>>

\* the postgres_changes callback: the query of fetchCurrentCounts fails
OnChangeDatedFails(c) ==
    /\ notifications[c] > 0
    /\ failures < MaxFailures
    /\ failures' = failures + 1
    /\ notifications' = [notifications EXCEPT ![c] = @ - 1]
    /\ today' = [today EXCEPT ![c] = [at |-> clock, date |-> GetTodayInToronto(clock)]]
    /\ errorMessage' = [errorMessage EXCEPT ![c] = FetchError]
    /\ UNCHANGED <<storeVars, platformVars, aggVars, clock, currentCount, isLoading,
                   showResetConfirm, subscription, isConnected, resetVars, inserts>>

\* handleEntry of part_004, the insert succeeds
HandleEntryDated(c, gender, type) ==
    /\ ~isLoading[c]
    /\ type = "exit" => currentCount[c][gender] > 0
    /\ inserts < MaxInserts
    /\ inserts' = inserts + 1
    /\ entries' = Append(entries, [id |-> inserts + 1, gender |-> gender,
                                   type |-> type, timestamp |-> clock,
                                   date |-> EntryDate(clock)])
    /\ notifications' = Published(SubscribersOf(EntryDate(clock)), 1)
    /\ errorMessage' = [errorMessage EXCEPT ![c] = Null]
    /\ currentCount' = [currentCount EXCEPT ![c][gender] =
                           IF type = "entry" THEN @ + 1 ELSE Max(0, @ - 1)]
    /\ UNCHANGED <<historical_entries, historical_intervals, platformVars, aggVars,
                   clock, isLoading, showResetConfirm, subscription, isConnected, today,
                   resetVars, failures>>

\* handleEntry of part_004, the insert fails: throw, catch
HandleEntryDatedFails(c, gender, type) ==
    /\ ~isLoading[c]
    /\ type = "exit" => currentCount[c][gender] > 0
    /\ failures < MaxFailures
    /\ failures' = failures + 1
    /\ errorMessage' = [errorMessage EXCEPT ![c] = EntryError]
    /\ UNCHANGED <<storeVars, platformVars, aggVars, clock, currentCount, isLoading,
                   showResetConfirm, subscription, isConnected, notifications, today,
                   resetVars, inserts>>

\* the callback of setInterval(..., 30000): currentDate is getTodayInToronto()
\* and is compared with getTodayInToronto() of the same instant, so the two
\* are equal and fetchCurrentCounts is not called
DateCheck(c) ==
    LET currentDate == GetTodayInToronto(clock)
    IN  /\ today' = [today EXCEPT ![c] = [at |-> clock, date |-> currentDate]]
        /\ IF currentDate # GetTodayInToronto(clock)
           THEN currentCount' = [currentCount EXCEPT ![c] =
                                    ReduceCounts(RowsOfDate(entries, currentDate))]
           ELSE UNCHANGED currentCount
        /\ UNCHANGED <<storeVars, platformVars, aggVars, clock, errorMessage,
                       isLoading, showResetConfirm, subscription, isConnected,
                       notifications, resetVars, inserts, failures>>

\* the hour before which the dashboard shows the previous day
DashCutoverHour == 3

\* getTodayInToronto of the dashboard at the instant t: the venue's wall
\* clock as a Date, setDate(getDate() - 1) before the hour, and the
\* calendar date of the result as YYYY-MM-DD, the form en-CA gives the
\* logger's date
DashboardToday(t) ==
    IF LocalHour(t) < DashCutoverHour THEN TorontoDate(t) - 1 ELSE TorontoDate(t)

\* the dashboard mounts: useState(getTodayInToronto())
DashboardMount ==
    /\ selectedDate' = [at |-> clock, date |-> DashboardToday(clock)]
    /\ UNCHANGED <<storeVars, platformVars, liveVars, intervalStats, peakStats,
                   dashError, dashLoaded, archStats, archIntervals, dashRuns, sessionVars,
                   authVars>>

\* the tab has mounted on an empty table at some instant, in either season,
\* on either kind of engine: fetchCurrentCounts has answered and the
\* subscription is open with the date of that instant in its filter
InitDate ==
    /\ entries = <<>>
    /\ historical_entries = <<>>
    /\ historical_intervals = <<>>
    /\ dst \in BOOLEAN
    /\ hourCycle \in HourCycles
    /\ NoAggregation
    /\ NoPages
    /\ clock \in DateTimes
    /\ currentCount = [c \in DateClients |-> ZeroCount]
    /\ errorMessage = [c \in DateClients |-> Null]
    /\ isLoading = [c \in DateClients |-> FALSE]
    /\ showResetConfirm = [c \in DateClients |-> FALSE]
    /\ subscription = [c \in DateClients |-> GetTodayInToronto(clock)]
    /\ isConnected = [c \in DateClients |-> TRUE]
    /\ notifications = [c \in DateClients |-> 0]
    /\ today = [c \in DateClients |-> [at |-> clock, date |-> GetTodayInToronto(clock)]]
    /\ tasks = {}
    /\ inserts = 0
    /\ failures = 0
    /\ resetCalls = 0
    /\ failedResets = {}

NextDate ==
    \/ Tick(DateTimes)
    \/ DashboardMount
    \/ \E c \in DateClients :
          \/ OnChangeDated(c)
          \/ OnChangeDatedFails(c)
          \/ \E gender \in Genders, type \in EntryTypes :
                \/ HandleEntryDated(c, gender, type)
                \/ HandleEntryDatedFails(c, gender, type)

SpecDate == InitDate /\ [][NextDate]_vars

\* the mounted tab over time: the clock advances, the interval callback runs
\* every 30 seconds, and a notification that has arrived is handled
NextDateLive ==
    \/ Tick(DateTimes)
    \/ \E c \in DateClients :
          \/ DateCheck(c)
          \/ OnChangeDated(c)
          \/ \E gender \in Genders, type \in EntryTypes :
                HandleEntryDated(c, gender, type)

\* time passes, the timer of setInterval keeps firing until the cleanup of
\* the effect, and the event loop runs every callback that is due
SpecDateLive ==
    /\ InitDate
    /\ [][NextDateLive]_vars
    /\ WF_vars(Tick(DateTimes))
    /\ \A c \in DateClients : WF_vars(DateCheck(c)) /\ WF_vars(OnChangeDated(c))

--------------------------------------------------------------------------
(* The patching Live Counter (components/EntryLogger.tsx): the count is   *)
(* fetched once, when the component mounts, and patched afterwards, by     *)
(* handleEntry and by the payload of every change notification.  Every     *)
(* change of the model is an INSERT of a row with a gender and a type, so  *)
(* the early returns of the notification handler are never taken.          *)

\* the reducer of fetchCurrentCounts at mount
LoggerCountsStep(acc, entry) ==
    LET change == IF entry.type = "entry" THEN 1 ELSE -1
    IN  IF entry.gender \in DOMAIN acc
        THEN [acc EXCEPT ![entry.gender] = @ + change]
        ELSE acc   \* acc[entry.gender] becomes NaN; male and female stay

RECURSIVE LoggerCountsUpTo(_, _)
LoggerCountsUpTo(rows, n) ==
    IF n = 0 THEN ZeroCount
    ELSE LoggerCountsStep(LoggerCountsUpTo(rows, n - 1), rows[n])

\* entries.reduce(..., {male: 0, female: 0})
LoggerCounts(rows) == LoggerCountsUpTo(rows, Len(rows))

\* the inserted row is sent as payload.new to every subscriber, the client
\* that inserted it included, in the order of the inserts
Broadcast(row) ==
    [c \in DOMAIN notifications |->
        IF subscription[c] = "*" THEN Append(notifications[c], row)
        ELSE notifications[c]]

\* the postgres_changes callback: the count is patched with the payload
LoggerOnChange(c) ==
    /\ notifications[c] # <<>>
    /\ LET entry == Head(notifications[c])
       IN  currentCount' = [currentCount EXCEPT
                              ![c][entry.gender] = Max(0, @ + Delta(entry.type))]
    /\ notifications' = [notifications EXCEPT ![c] = Tail(@)]
    /\ UNCHANGED <<storeVars, platformVars, aggVars, clock, errorMessage, isLoading,
                   showResetConfirm, subscription, isConnected, today, resetVars, inserts,
                   failures>>

\* handleEntry, the insert succeeds.  The buttons are disabled while isLoading,
\* the exit button also while the gender's count is <= 0.
LoggerHandleEntry(c, gender, type) ==
    /\ ~isLoading[c]
    /\ type = "exit" => currentCount[c][gender] > 0
    /\ inserts < MaxInserts
    /\ inserts' = inserts + 1
    /\ LET row == [id |-> Len(entries) + 1, gender |-> gender, type |-> type,
                   timestamp |-> clock]
       IN  /\ entries' = Append(entries, row)
           /\ notifications' = Broadcast(row)
    /\ errorMessage' = [errorMessage EXCEPT ![c] = Null]
    /\ currentCount' = [currentCount EXCEPT ![c][gender] = Max(0, @ + Delta(type))]
    /\ UNCHANGED <<historical_entries, historical_intervals, platformVars, aggVars,
                   clock, isLoading, showResetConfirm, subscription, isConnected, today,
                   resetVars, failures>>

\* handleEntry as an optimistic update would be: the insert fails after the
\* count was patched
LoggerHandleEntryFailsOptimistic(c, gender, type) ==
    /\ ~isLoading[c]
    /\ type = "exit" => currentCount[c][gender] > 0
    /\ failures < MaxFailures
    /\ failures' = failures + 1
    /\ errorMessage' = [errorMessage EXCEPT ![c] = EntryError]
    /\ currentCount' = [currentCount EXCEPT ![c][gender] = Max(0, @ + Delta(type))]
    /\ UNCHANGED <<storeVars, platformVars, aggVars, clock, isLoading,
                   showResetConfirm, subscription, isConnected, notifications, today,
                   resetVars, inserts>>

\* handleEntry, the insert fails
LoggerHandleEntryFails(c, gender, type) ==
    /\ ~isLoading[c]
    /\ type = "exit" => currentCount[c][gender] > 0
    /\ failures < MaxFailures
    /\ failures' = failures + 1
    /\ errorMessage' = [errorMessage EXCEPT ![c] = EntryError]
    /\ UNCHANGED <<storeVars, platformVars, aggVars, clock, currentCount, isLoading,
                   showResetConfirm, subscription, isConnected, notifications, today,
                   resetVars, inserts>>

\* the button "Reset Counter": setShowResetConfirm(true)
LoggerOpenResetConfirm(c) ==
    /\ ~showResetConfirm[c]
    /\ resetCalls < MaxResets
    /\ showResetConfirm' = [showResetConfirm EXCEPT ![c] = TRUE]
    /\ UNCHANGED <<storeVars, platformVars, aggVars, clock, currentCount,
                   errorMessage, isLoading, subscription, isConnected, notifications, today,
                   resetVars, inserts, failures>>

\* the button "Cancel" of the modal: setShowResetConfirm(false)
LoggerCancelResetConfirm(c) ==
    /\ showResetConfirm[c]
    /\ showResetConfirm' = [showResetConfirm EXCEPT ![c] = FALSE]
    /\ UNCHANGED <<storeVars, platformVars, aggVars, clock, currentCount,
                   errorMessage, isLoading, subscription, isConnected, notifications, today,
                   resetVars, inserts, failures>>

(* handleReset inserts one exit row for each gender whose count, in the    *)
(* closure of the call, is > 0.  A call is a task that waits for the       *)
(* answer to one insert at a time.                                         *)

\* the insert a call waits for after the one of `step`
RequestAfter(step, currentMaleCount, currentFemaleCount) ==
    IF step = "called" /\ currentMaleCount > 0 THEN "male"
    ELSE IF step # "female" /\ currentFemaleCount > 0 THEN "female"
    ELSE "done"

\* the call as the button "Reset" of the modal makes it.  before, stored,
\* inserts and quiet are not part of the program: they record the count the
\* call found, the reduction of the table at that moment, the number of rows
\* recorded by handleEntry so far, and whether the client had no notification
\* waiting and no other call was in flight.
LoggerNewTask(c) ==
    [id |-> resetCalls + 1, client |-> c,
     step |-> RequestAfter("called", currentCount[c].male, currentCount[c].female),
     currentMaleCount |-> currentCount[c].male,
     currentFemaleCount |-> currentCount[c].female,
     before |-> currentCount[c],
     stored |-> LoggerCounts(entries),
     inserts |-> inserts,
     quiet |-> notifications[c] = <<>> /\ tasks = {}]

\* handleReset up to its first insert, or to its end when it inserts nothing
LoggerHandleReset(c) ==
    /\ showResetConfirm[c]
    /\ resetCalls < MaxResets
    /\ resetCalls' = resetCalls + 1
    /\ errorMessage' = [errorMessage EXCEPT ![c] = Null]
    /\ LET t == LoggerNewTask(c)
       IN  IF t.step = "done"
           THEN /\ showResetConfirm' = [showResetConfirm EXCEPT ![c] = FALSE]
                /\ currentCount' = [currentCount EXCEPT ![c] = ZeroCount]
                /\ isLoading' = [isLoading EXCEPT ![c] = FALSE]
                /\ UNCHANGED tasks
           ELSE /\ isLoading' = [isLoading EXCEPT ![c] = TRUE]
                /\ tasks' = tasks \cup {t}
                /\ UNCHANGED <<currentCount, showResetConfirm>>
    /\ UNCHANGED <<storeVars, platformVars, aggVars, clock, subscription, isConnected,
                   notifications, today, failedResets, inserts, failures>>

\* the calls of client c that wait for the answer to an insert
LoggerTasks(c) == TasksAt(c, "male") \cup TasksAt(c, "female")

\* an insert of handleReset succeeds: the call goes on to its next insert,
\* or resets the UI state and ends
LoggerResetInsert(c) ==
    \E t \in LoggerTasks(c) :
        /\ LET row == [id |-> Len(entries) + 1, gender |-> t.step, type |-> "exit",
                       timestamp |-> clock]
           IN  /\ entries' = Append(entries, row)
               /\ notifications' = Broadcast(row)
        /\ LET next == RequestAfter(t.step, t.currentMaleCount, t.currentFemaleCount)
           IN  IF next = "done"
               THEN /\ showResetConfirm' = [showResetConfirm EXCEPT ![c] = FALSE]
                    /\ currentCount' = [currentCount EXCEPT ![c] = ZeroCount]
                    /\ isLoading' = [isLoading EXCEPT ![c] = FALSE]
                    /\ tasks' = tasks \ {t}
               ELSE /\ tasks' = (tasks \ {t}) \cup {[t EXCEPT !.step = next]}
                    /\ UNCHANGED <<currentCount, showResetConfirm, isLoading>>
        /\ UNCHANGED <<historical_entries, historical_intervals, platformVars,
                       aggVars, clock, errorMessage, subscription, isConnected, today,
                       resetCalls, failedResets, inserts, failures>>

\* an insert of handleReset fails: catch and finally
LoggerResetInsertFails(c) ==
    \E t \in LoggerTasks(c) :
        /\ failures < MaxFailures
        /\ failures' = failures + 1
        /\ errorMessage' = [errorMessage EXCEPT ![c] = ResetError]
        /\ isLoading' = [isLoading EXCEPT ![c] = FALSE]
        /\ tasks' = tasks \ {t}
        /\ failedResets' = failedResets \cup
                             {[id |-> t.id, client |-> c, step |-> t.step,
                               before |-> t.before, inserts |-> t.inserts,
                               quiet |-> t.quiet]}
        /\ UNCHANGED <<storeVars, platformVars, aggVars, clock, currentCount,
                       showResetConfirm, subscription, isConnected, notifications, today,
                       resetCalls, inserts>>

ConnectError == "Unable to connect to the database. Please try again later."

\* What a client has become when the requests of its mount have answered.
\* isConnected starts as true, so the second effect fetches the counts and
\* subscribes whatever checkConnection will answer.  When checkConnection
\* answers with an error, isConnected becomes false and the effect's cleanup
\* unsubscribes; the fetch of the mount has answered with the rows or with
\* an error of its own, before or after checkConnection.
MountOutcomes(rows) ==
    { [isConnected |-> TRUE, currentCount |-> LoggerCounts(rows),
       errorMessage |-> Null, subscription |-> "*"] }
    \cup
    { [isConnected |-> FALSE, currentCount |-> LoggerCounts(rows),
       errorMessage |-> ConnectError, subscription |-> "none"] }
    \cup
    { [isConnected |-> FALSE, currentCount |-> ZeroCount,
       errorMessage |-> e, subscription |-> "none"] : e \in {ConnectError, FetchError} }

\* two clients have mounted and the requests of their mounts have answered
InitLogger ==
    /\ entries \in InitialTables
    /\ historical_entries = <<>>
    /\ historical_intervals = <<>>
    /\ dst = TRUE
    /\ hourCycle = "h23"
    /\ NoAggregation
    /\ NoPages
    /\ clock = 1205
    /\ \E mounted \in [Clients -> MountOutcomes(entries)] :
          /\ currentCount = [c \in Clients |-> mounted[c].currentCount]
          /\ errorMessage = [c \in Clients |-> mounted[c].errorMessage]
          /\ subscription = [c \in Clients |-> mounted[c].subscription]
          /\ isConnected = [c \in Clients |-> mounted[c].isConnected]
    /\ isLoading = [c \in Clients |-> FALSE]
    /\ showResetConfirm = [c \in Clients |-> FALSE]
    /\ notifications = [c \in Clients |-> <<>>]
    /\ today = <<>>
    /\ tasks = {}
    /\ inserts = 0
    /\ failures = 0
    /\ resetCalls = 0
    /\ failedResets = {}

NextLogger ==
    \/ Tick(LiveTimes)
    \/ \E c \in Clients :
          \/ LoggerOnChange(c)
          \/ \E gender \in Genders, type \in EntryTypes :
                \/ LoggerHandleEntry(c, gender, type)
                \/ LoggerHandleEntryFails(c, gender, type)
          \/ LoggerOpenResetConfirm(c)
          \/ LoggerCancelResetConfirm(c)
          \/ LoggerHandleReset(c)
          \/ LoggerResetInsert(c)
          \/ LoggerResetInsertFails(c)

SpecLogger == InitLogger /\ [][NextLogger]_vars

--------------------------------------------------------------------------
(* The archiving Live Counter, request by request                          *)
(* (components/AdminDashboard.tsx, lines 480-591).  Every request is three *)
(* steps: it is sent, the store carries it out, its response is delivered. *)
(* A request in flight is a task; the store and the network take them in   *)
(* any order.  handleReset is not part of this specification; it is in     *)
(* Spec.                                                                   *)

\* the least identifier no request in flight has
FreeId == CHOOSE i \in 1..(Cardinality(tasks) + 1) : \A t \in tasks : t.id # i

\* a click on a counter button: handleEntry up to its await
RefetchHandleEntry(c, gender, type) ==
    /\ ~isLoading[c]
    /\ type = "exit" => currentCount[c][gender] > 0
    /\ inserts < MaxInserts
    /\ inserts' = inserts + 1
    /\ isLoading' = [isLoading EXCEPT ![c] = TRUE]
    /\ errorMessage' = [errorMessage EXCEPT ![c] = Null]
    /\ tasks' = tasks \cup {[id |-> FreeId, client |-> c, step |-> "insert",
                             gender |-> gender, type |-> type,
                             counts |-> ZeroCount]}
    /\ UNCHANGED <<storeVars, platformVars, aggVars, clock, currentCount,
                   showResetConfirm, subscription, isConnected, notifications, today,
                   resetCalls, failedResets, failures>>

\* the store carries out an insert and publishes the change
RefetchInsert(c) ==
    \E t \in TasksAt(c, "insert") :
        /\ entries' = Append(entries, [id |-> Len(entries) + 1, gender |-> t.gender,
                                       type |-> t.type, timestamp |-> clock])
        /\ notifications' = Published({ d \in Clients : subscription[d] = "*" }, 1)
        /\ tasks' = (tasks \ {t}) \cup {[t EXCEPT !.step = "inserted"]}
        /\ UNCHANGED <<historical_entries, historical_intervals, platformVars,
                       aggVars, clock, currentCount, errorMessage, isLoading,
                       showResetConfirm, subscription, isConnected, today,
                       resetCalls, failedResets, inserts, failures>>

\* handleEntry after its await, the insert has succeeded: the count is patched
RefetchInsertResponse(c) ==
    \E t \in TasksAt(c, "inserted") :
        /\ currentCount' = [currentCount EXCEPT
                               ![c][t.gender] = Max(0, @ + Delta(t.type))]
        /\ isLoading' = [isLoading EXCEPT ![c] = FALSE]
        /\ tasks' = tasks \ {t}
        /\ UNCHANGED <<storeVars, platformVars, aggVars, clock, errorMessage,
                       showResetConfirm, subscription, isConnected, notifications,
                       today, resetCalls, failedResets, inserts, failures>>

\* handleEntry after its await, the insert was refused
RefetchInsertFails(c) ==
    \E t \in TasksAt(c, "insert") :
        /\ failures < MaxFailures
        /\ failures' = failures + 1
        /\ errorMessage' = [errorMessage EXCEPT ![c] = EntryError]
        /\ isLoading' = [isLoading EXCEPT ![c] = FALSE]
        /\ tasks' = tasks \ {t}
        /\ UNCHANGED <<storeVars, platformVars, aggVars, clock, currentCount,
                       showResetConfirm, subscription, isConnected, notifications,
                       today, resetCalls, failedResets, inserts>>

\* the postgres_changes callback: fetchCurrentCounts up to its await
RefetchOnChange(c) ==
    /\ notifications[c] > 0
    /\ notifications' = [notifications EXCEPT ![c] = @ - 1]
    /\ tasks' = tasks \cup {[id |-> FreeId, client |-> c, step |-> "select",
                             gender |-> "male", type |-> "entry",
                             counts |-> ZeroCount]}
    /\ UNCHANGED <<storeVars, platformVars, aggVars, clock, currentCount,
                   errorMessage, isLoading, showResetConfirm, subscription,
                   isConnected, today, resetCalls, failedResets, inserts, failures>>

\* the store carries out select('gender, type'); the response holds the
\* rows of that moment, of which the client will keep the reduction
RefetchSelect(c) ==
    \E t \in TasksAt(c, "select") :
        /\ tasks' = (tasks \ {t}) \cup
                      {[t EXCEPT !.step = "selected", !.counts = ReduceCounts(entries)]}
        /\ UNCHANGED <<storeVars, platformVars, aggVars, clock, clientVars,
                       resetCalls, failedResets, inserts, failures>>

\* fetchCurrentCounts after its await: setCurrentCount(counts)
RefetchSelectResponse(c) ==
    \E t \in TasksAt(c, "selected") :
        /\ currentCount' = [currentCount EXCEPT ![c] = t.counts]
        /\ tasks' = tasks \ {t}
        /\ UNCHANGED <<storeVars, platformVars, aggVars, clock, errorMessage,
                       isLoading, showResetConfirm, subscription, isConnected,
                       notifications, today, resetCalls, failedResets, inserts,
                       failures>>

\* fetchCurrentCounts after its await, the query was refused
RefetchSelectFails(c) ==
    \E t \in TasksAt(c, "select") :
        /\ failures < MaxFailures
        /\ failures' = failures + 1
        /\ errorMessage' = [errorMessage EXCEPT ![c] = FetchError]
        /\ tasks' = tasks \ {t}
        /\ UNCHANGED <<storeVars, platformVars, aggVars, clock, currentCount,
                       isLoading, showResetConfirm, subscription, isConnected,
                       notifications, today, resetCalls, failedResets, inserts>>

\* two clients have mounted: the connectivity check and the first
\* fetchCurrentCounts have answered, the subscriptions are open
InitRefetch ==
    /\ entries \in InitialTables
    /\ historical_entries = <<>>
    /\ historical_intervals = <<>>
    /\ dst = TRUE
    /\ hourCycle = "h23"
    /\ NoAggregation
    /\ NoPages
    /\ clock = 1205
    /\ currentCount = [c \in Clients |-> ReduceCounts(entries)]
    /\ errorMessage = [c \in Clients |-> Null]
    /\ isLoading = [c \in Clients |-> FALSE]
    /\ showResetConfirm = [c \in Clients |-> FALSE]
    /\ subscription = [c \in Clients |-> "*"]
    /\ isConnected = [c \in Clients |-> TRUE]
    /\ notifications = [c \in Clients |-> 0]
    /\ today = <<>>
    /\ tasks = {}
    /\ inserts = 0
    /\ failures = 0
    /\ resetCalls = 0
    /\ failedResets = {}

NextRefetch ==
    \E c \in Clients :
        \/ \E gender \in Genders, type \in EntryTypes :
              RefetchHandleEntry(c, gender, type)
        \/ RefetchInsert(c)
        \/ RefetchInsertResponse(c)
        \/ RefetchInsertFails(c)
        \/ RefetchOnChange(c)
        \/ RefetchSelect(c)
        \/ RefetchSelectResponse(c)
        \/ RefetchSelectFails(c)

SpecRefetch == InitRefetch /\ [][NextRefetch]_vars

--------------------------------------------------------------------------
(* SpecReduce: the reductions of the entries table side by side.  The     *)
(* table is any bounded, time-ordered table of the rows the program        *)
(* writes: the rows of handleEntry and the session marker that             *)
(* fetchIntervalStats of components/Navigation.tsx inserts (lines          *)
(* 240-250).  Over it run fetchIntervalStats of the Historical Dashboard   *)
(* (unnamed/part_003), fetchCurrentCounts of the archiving Live Counter    *)
(* (components/AdminDashboard.tsx), fetchCurrentCounts of the patching     *)
(* Live Counter (components/EntryLogger.tsx) and the reduction of the      *)
(* snapshot function (supabase/functions/take-snapshot/index.ts).          *)

\* longest entries table drawn for the reductions side by side
MaxMarked == 2

\* the session marker: type 'session_start', gender 'system'
MarkerRows == [gender : {"system"}, type : {"session_start"}, timestamp : Timestamps]

\* the rows of the tables drawn here: those of 16:05 and of 02:10 EDT
MarkedRows == { r \in Rows \cup MarkerRows : r.timestamp \in {1205, 1810} }

\* all time-ordered tables of at most n rows, session markers included
MarkedTables(n) ==
    UNION { { s \in [1..k -> MarkedRows] :
                \A i \in 1..(k-1) : s[i].timestamp <= s[i+1].timestamp }
            : k \in 0..n }

\* the components that reduce the table to a count
Counters == {"AdminDashboard", "EntryLogger", "take-snapshot"}

\* the reduction of a component: AdminDashboard.tsx tests type and gender,
\* EntryLogger.tsx and take-snapshot index by entry.gender
CountsOf(c, rows) ==
    IF c = "AdminDashboard" THEN ReduceCounts(rows) ELSE LoggerCounts(rows)

\* the query of a component returns the rows: reduce and keep the counts
FetchCurrentCounts(c) ==
    \E t \in TasksAt(c, "select") :
        /\ currentCount' = [currentCount EXCEPT ![c] = CountsOf(c, entries)]
        /\ tasks' = tasks \ {t}
        /\ UNCHANGED <<storeVars, platformVars, aggVars, clock, errorMessage,
                       isLoading, showResetConfirm, subscription, isConnected,
                       notifications, today, resetCalls, failedResets, inserts,
                       failures>>

\* the query of a component returns an error
FetchCurrentCountsFails(c) ==
    \E t \in TasksAt(c, "select") :
        /\ failures < MaxFailures
        /\ failures' = failures + 1
        /\ errorMessage' = [errorMessage EXCEPT ![c] = FetchError]
        /\ tasks' = tasks \ {t}
        /\ UNCHANGED <<storeVars, platformVars, aggVars, clock, currentCount,
                       isLoading, showResetConfirm, subscription, isConnected,
                       notifications, today, resetCalls, failedResets, inserts>>

\* every component has sent its query and waits for the rows
InitReduce ==
    /\ entries \in MarkedTables(MaxMarked)
    /\ historical_entries = <<>>
    /\ historical_intervals = <<>>
    /\ dst = TRUE
    /\ hourCycle = "h23"
    /\ NoAggregation
    /\ NoPages
    /\ clock = 1870
    /\ currentCount = [c \in Counters |-> ZeroCount]
    /\ errorMessage = [c \in Counters |-> Null]
    /\ isLoading = [c \in Counters |-> FALSE]
    /\ showResetConfirm = [c \in Counters |-> FALSE]
    /\ subscription = [c \in Counters |-> "*"]
    /\ isConnected = [c \in Counters |-> TRUE]
    /\ notifications = [c \in Counters |-> 0]
    /\ today = <<>>
    /\ tasks = { [id |-> 0, client |-> c, step |-> "select", gender |-> "male",
                  type |-> "entry", counts |-> ZeroCount] : c \in Counters }
    /\ inserts = 0
    /\ failures = 0
    /\ resetCalls = 0
    /\ failedResets = {}

NextReduce ==
    \/ FetchIntervalStatsError
    \/ FetchIntervalStatsRows
    \/ \E c \in Counters :
          \/ FetchCurrentCounts(c)
          \/ FetchCurrentCountsFails(c)

SpecReduce == InitReduce /\ [][NextReduce]_vars

--------------------------------------------------------------------------
(* SpecAuth: the pages behind the login (unnamed/part_002).  LoginPage     *)
(* signs a user in and looks the user up in the table admins; AdminPage    *)
(* checks the session and the table again when it mounts.  The answers of  *)
(* the auth service and of the store are kept in the state of the page     *)
(* that asked.                                                             *)

Users == {"u1", "u2"}
\* what the table admins says of a user: a role, or no row
Roles == {"admin", "staff"}
AdminTables == [Users -> Roles \cup {"no row"}]

LoginError == "An error occurred during login"
Unauthorized == "Unauthorized access"

\* what the model leaves as it is when a page acts
authFrame == <<storeVars, platformVars, liveVars, intervalStats, peakStats,
               dashError, dashLoaded, archStats, archIntervals, selectedDate,
               dashRuns, sessionVars>>

\* LoginPage at rest, and AdminPage when it mounts: useState(true)
LoginIdle == [isLoading |-> FALSE, error |-> "", step |-> "idle", user |-> "none"]
AdminMounted == [isLoading |-> TRUE, step |-> "getSession", session |-> "pending",
                 adminData |-> "pending"]
AdminUnmounted == [isLoading |-> TRUE, step |-> "unmounted", session |-> "pending",
                   adminData |-> "pending"]

\* the user opens /login
OpenLogin ==
    /\ route # "/login"
    /\ route' = "/login"
    /\ loginPage' = LoginIdle
    /\ adminPage' = AdminUnmounted
    /\ UNCHANGED <<authFrame, authSession, admins>>

\* the user opens /admin: AdminPage mounts and its effect calls checkAuth
OpenAdmin ==
    /\ route # "/admin"
    /\ loginPage.step = "idle"
    /\ route' = "/admin"
    /\ adminPage' = AdminMounted
    /\ UNCHANGED <<authFrame, authSession, admins, loginPage>>

\* handleLogin up to its first await
HandleLogin(u) ==
    /\ route = "/login"
    /\ loginPage.step = "idle"
    /\ loginPage' = [isLoading |-> TRUE, error |-> "", step |-> "signIn", user |-> u]
    /\ UNCHANGED <<authFrame, authSession, admins, route, adminPage>>

\* signInWithPassword answers with a session
LoginSignIn ==
    /\ loginPage.step = "signIn"
    /\ authSession' = loginPage.user
    /\ loginPage' = [loginPage EXCEPT !.step = "admins"]
    /\ UNCHANGED <<authFrame, admins, route, adminPage>>

\* signInWithPassword answers with an error: catch and finally
LoginSignInFails ==
    /\ loginPage.step = "signIn"
    /\ loginPage' = [loginPage EXCEPT !.step = "idle", !.isLoading = FALSE,
                                      !.error = LoginError]
    /\ UNCHANGED <<authFrame, authSession, admins, route, adminPage>>

\* the query on admins answers: router.push('/admin') for an admin,
\* 'Unauthorized access' otherwise (no row is an error of .single())
LoginAdmins ==
    /\ loginPage.step = "admins"
    /\ IF admins[loginPage.user] = "admin"
       THEN /\ route' = "/admin"
            /\ loginPage' = LoginIdle
            /\ adminPage' = AdminMounted
       ELSE /\ loginPage' = [loginPage EXCEPT !.step = "idle", !.isLoading = FALSE,
                                              !.error = Unauthorized]
            /\ UNCHANGED <<route, adminPage>>
    /\ UNCHANGED <<authFrame, authSession, admins>>

\* the query on admins answers with an error
LoginAdminsFails ==
    /\ loginPage.step = "admins"
    /\ loginPage' = [loginPage EXCEPT !.step = "idle", !.isLoading = FALSE,
                                      !.error = Unauthorized]
    /\ UNCHANGED <<authFrame, authSession, admins, route, adminPage>>

\* checkAuth: getSession answers
CheckAuthSession ==
    /\ adminPage.step = "getSession"
    /\ IF authSession = "none"
       THEN /\ route' = "/login"
            /\ adminPage' = [adminPage EXCEPT !.step = "done", !.session = "none"]
            /\ loginPage' = LoginIdle
       ELSE /\ adminPage' = [adminPage EXCEPT !.step = "admins",
                                              !.session = authSession]
            /\ UNCHANGED <<route, loginPage>>
    /\ UNCHANGED <<authFrame, authSession, admins>>

\* checkAuth: getSession throws, catch
CheckAuthSessionThrows ==
    /\ adminPage.step = "getSession"
    /\ route' = "/login"
    /\ adminPage' = [adminPage EXCEPT !.step = "done", !.session = "thrown"]
    /\ loginPage' = LoginIdle
    /\ UNCHANGED <<authFrame, authSession, admins>>

\* the test of checkAuth on the answer of the query, without the role
AdminAllowedAnyRole(error, adminData) == ~error /\ adminData # "no row"

\* !(error || !adminData || adminData.role !== 'admin')
AdminAllowed(error, adminData) ==
    ~error /\ adminData # "no row" /\ adminData = "admin"

\* checkAuth: the query on admins answers, with the row of the session's
\* user or with the error of .single() when there is none
CheckAuthAdmins ==
    /\ adminPage.step = "admins"
    /\ LET adminData == admins[adminPage.session]
       IN  /\ adminPage' = [adminPage EXCEPT
                               !.step = "done", !.adminData = adminData,
                               !.isLoading = IF AdminAllowed(adminData = "no row", adminData)
                                             THEN FALSE ELSE @]
           /\ route' = IF AdminAllowed(adminData = "no row", adminData)
                       THEN route ELSE "/"
    /\ UNCHANGED <<authFrame, authSession, admins, loginPage>>

\* checkAuth: the query on admins answers with an error
CheckAuthAdminsFails ==
    /\ adminPage.step = "admins"
    /\ adminPage' = [adminPage EXCEPT !.step = "done", !.adminData = "error"]
    /\ route' = "/"
    /\ UNCHANGED <<authFrame, authSession, admins, loginPage>>

\* checkAuth: the query on admins throws, catch
CheckAuthAdminsThrows ==
    /\ adminPage.step = "admins"
    /\ adminPage' = [adminPage EXCEPT !.step = "done", !.adminData = "thrown"]
    /\ route' = "/login"
    /\ loginPage' = LoginIdle
    /\ UNCHANGED <<authFrame, authSession, admins>>

\* nobody is signed in, the browser shows the home page
InitAuth ==
    /\ entries = <<>>
    /\ historical_entries = <<>>
    /\ historical_intervals = <<>>
    /\ dst = TRUE
    /\ NoAggregation
    /\ NoClients
    /\ selectedDate = <<>>
    /\ dashRuns = <<>>
    /\ NoSession
    /\ authSession = "none"
    /\ admins \in AdminTables
    /\ route = "/"
    /\ loginPage = LoginIdle
    /\ adminPage = AdminUnmounted

NextAuth ==
    \/ OpenLogin
    \/ OpenAdmin
    \/ \E u \in Users : HandleLogin(u)
    \/ LoginSignIn
    \/ LoginSignInFails
    \/ LoginAdmins
    \/ LoginAdminsFails
    \/ CheckAuthSession
    \/ CheckAuthSessionThrows
    \/ CheckAuthAdmins
    \/ CheckAuthAdminsFails
    \/ CheckAuthAdminsThrows

SpecAuth == InitAuth /\ [][NextAuth]_vars

--------------------------------------------------------------------------
(* SpecDash: the Historical Dashboard (unnamed/part_003) while it is on    *)
(* the screen.  The effect of selectedDate starts fetchIntervalStats and   *)
(* subscribes to the changes of the date's window with fetchIntervalStats  *)
(* as the callback; another component writes rows.  A run of               *)
(* fetchIntervalStats is a task: sent, carried out by the store, answered. *)

Dash == "dashboard"

\* the dates the user can select: the date of the timestamps and the next
DashDates == {0, 1}
\* the instants of the model: 16:05 EDT of date 0 and of date 1
DashTimes == {1205, 2645}
\* runs of fetchIntervalStats in flight at one time
MaxFetches == 2

\* the window of a selected date, as the query and the filter of the
\* subscription write it
InWindowOf(ts, date) ==
    /\ ts >= WindowStart + date * MinutesPerDay
    /\ ts < WindowEnd + date * MinutesPerDay

QueryWindowOf(table, date) == SelectSeq(table, LAMBDA r : InWindowOf(r.timestamp, date))

\* a run of fetchIntervalStats for a date, up to its await
DashTask(date) ==
    [id |-> FreeId, client |-> Dash, step |-> "select", date |-> date, data |-> <<>>]

\* onChange of the date input: setSelectedDate; the effect unsubscribes,
\* calls fetchIntervalStats and subscribes for the new date
DashSelectDate(date) ==
    /\ date # selectedDate.date
    /\ Cardinality(tasks) < MaxFetches
    /\ selectedDate' = [at |-> clock, date |-> date]
    /\ subscription' = [subscription EXCEPT ![Dash] = date]
    /\ notifications' = [notifications EXCEPT ![Dash] = 0]
    /\ tasks' = tasks \cup {DashTask(date)}
    /\ dashError' = FALSE
    /\ UNCHANGED <<storeVars, platformVars, clock, currentCount, errorMessage,
                   isLoading, showResetConfirm, isConnected, today, resetCalls,
                   failedResets, inserts, failures, intervalStats, peakStats,
                   dashLoaded, archStats, archIntervals, dashRuns, sessionVars,
                   authVars>>

\* a Live Counter records an event now; the change is published to the
\* dashboard when the row passes the filter of its subscription
WriterInsert(gender, type) ==
    /\ inserts < MaxInserts
    /\ inserts' = inserts + 1
    /\ entries' = Append(entries, [gender |-> gender, type |-> type,
                                   timestamp |-> clock])
    /\ notifications' = [notifications EXCEPT
                            ![Dash] = IF InWindowOf(clock, subscription[Dash])
                                      THEN @ + 1 ELSE @]
    /\ UNCHANGED <<historical_entries, historical_intervals, platformVars, aggVars,
                   clock, currentCount, errorMessage, isLoading, showResetConfirm,
                   subscription, isConnected, today, resetVars, failures>>

\* the postgres_changes callback: fetchIntervalStats of the subscribed date
DashOnChange ==
    /\ notifications[Dash] > 0
    /\ Cardinality(tasks) < MaxFetches
    /\ notifications' = [notifications EXCEPT ![Dash] = @ - 1]
    /\ tasks' = tasks \cup {DashTask(subscription[Dash])}
    /\ dashRuns' = Append(dashRuns, clock)
    /\ dashError' = FALSE
    /\ UNCHANGED <<storeVars, platformVars, clock, currentCount, errorMessage,
                   isLoading, showResetConfirm, subscription, isConnected, today,
                   resetCalls, failedResets, inserts, failures, intervalStats,
                   peakStats, dashLoaded, archStats, archIntervals, selectedDate,
                   sessionVars, authVars>>

\* the store carries out the query of a run
DashSelect ==
    \E t \in TasksAt(Dash, "select") :
        /\ tasks' = (tasks \ {t}) \cup
                      {[t EXCEPT !.step = "selected",
                                 !.data = QueryWindowOf(entries, t.date)]}
        /\ UNCHANGED <<storeVars, platformVars, aggVars, clock, clientVars,
                       resetCalls, failedResets, inserts, failures>>

\* fetchIntervalStats after its await, with the rows
DashResponse ==
    \E t \in TasksAt(Dash, "selected") :
        /\ IF Len(t.data) = 0
           THEN /\ intervalStats' = <<>>
                /\ UNCHANGED peakStats
           ELSE /\ intervalStats' = StatsArray(AccumulateUpTo(t.data, Len(t.data)),
                                               TotalInside(t.data))
                /\ peakStats' = ComputePeaks(intervalStats')
        /\ dashLoaded' = TRUE
        /\ tasks' = tasks \ {t}
        /\ UNCHANGED <<storeVars, platformVars, clock, clientVars, resetCalls,
                       failedResets, inserts, failures, dashError, archStats,
                       archIntervals, pageVars>>

\* fetchIntervalStats after its await, with an error
DashResponseFails ==
    \E t \in TasksAt(Dash, "select") :
        /\ failures < MaxFailures
        /\ failures' = failures + 1
        /\ dashError' = TRUE
        /\ tasks' = tasks \ {t}
        /\ UNCHANGED <<storeVars, platformVars, clock, clientVars, resetCalls,
                       failedResets, inserts, intervalStats, peakStats, dashLoaded,
                       archStats, archIntervals, pageVars>>

\* the dashboard has mounted at 16:05 EDT on an empty table: its first
\* fetchIntervalStats is on its way and the subscription is open
InitDash ==
    /\ entries = <<>>
    /\ historical_entries = <<>>
    /\ historical_intervals = <<>>
    /\ dst = TRUE
    /\ hourCycle = "h23"
    /\ NoAggregation
    /\ clock = 1205
    /\ selectedDate = [at |-> clock, date |-> DashboardToday(clock)]
    /\ dashRuns = <<>>
    /\ NoSession
    /\ authSession = "none"
    /\ admins = <<>>
    /\ route = "/"
    /\ loginPage = <<>>
    /\ adminPage = <<>>
    /\ currentCount = <<>>
    /\ errorMessage = <<>>
    /\ isLoading = <<>>
    /\ showResetConfirm = <<>>
    /\ subscription = [c \in {Dash} |-> selectedDate.date]
    /\ isConnected = <<>>
    /\ notifications = [c \in {Dash} |-> 0]
    /\ today = <<>>
    /\ tasks = { [id |-> 1, client |-> Dash, step |-> "select",
                  date |-> selectedDate.date, data |-> <<>>] }
    /\ inserts = 0
    /\ failures = 0
    /\ resetCalls = 0
    /\ failedResets = {}

NextDash ==
    \/ Tick(DashTimes)
    \/ \E date \in DashDates : DashSelectDate(date)
    \/ \E gender \in Genders, type \in EntryTypes : WriterInsert(gender, type)
    \/ DashOnChange
    \/ DashSelect
    \/ DashResponse
    \/ DashResponseFails

SpecDash == InitDash /\ [][NextDash]_vars

--------------------------------------------------------------------------
(* SpecMount: the patching Live Counter (components/EntryLogger.tsx) from  *)
(* its first render.  The two effects run when the component has          *)
(* rendered; the requests they send are tasks.                             *)

\* a request of the mount in flight
MountTask(c, step) ==
    [id |-> 0, client |-> c, step |-> step, gender |-> "male", type |-> "entry",
     counts |-> ZeroCount]

\* the effects of the first render: checkConnection is called, and, with
\* isConnected still at its initial true, fetchCurrentCounts is called and
\* the channel is subscribed
LoggerMount(c) ==
    /\ isConnected[c]
    /\ subscription[c] = "none"
    /\ TasksAt(c, "check") = {}
    /\ tasks' = tasks \cup {MountTask(c, "check"), MountTask(c, "select")}
    /\ subscription' = [subscription EXCEPT ![c] = "*"]
    /\ UNCHANGED <<storeVars, platformVars, aggVars, clock, currentCount,
                   errorMessage, isLoading, showResetConfirm, isConnected,
                   notifications, today, resetCalls, failedResets, inserts, failures>>

\* checkConnection: the query answers without an error, setIsConnected(true)
CheckConnection(c) ==
    \E t \in TasksAt(c, "check") :
        /\ tasks' = tasks \ {t}
        /\ UNCHANGED <<storeVars, platformVars, aggVars, clock, clientVars,
                       resetCalls, failedResets, inserts, failures>>

\* checkConnection: the query answers with an error or throws; the effect of
\* isConnected unsubscribes and returns early
CheckConnectionFails(c) ==
    \E t \in TasksAt(c, "check") :
        /\ tasks' = tasks \ {t}
        /\ isConnected' = [isConnected EXCEPT ![c] = FALSE]
        /\ errorMessage' = [errorMessage EXCEPT ![c] = ConnectError]
        /\ subscription' = [subscription EXCEPT ![c] = "none"]
        /\ notifications' = [notifications EXCEPT ![c] = <<>>]
        /\ UNCHANGED <<storeVars, platformVars, aggVars, clock, currentCount,
                       isLoading, showResetConfirm, today, resetCalls, failedResets,
                       inserts, failures>>

\* fetchCurrentCounts of the mount answers with the rows
MountFetch(c) ==
    \E t \in TasksAt(c, "select") :
        /\ tasks' = tasks \ {t}
        /\ currentCount' = [currentCount EXCEPT ![c] = LoggerCounts(entries)]
        /\ UNCHANGED <<storeVars, platformVars, aggVars, clock, errorMessage,
                       isLoading, showResetConfirm, subscription, isConnected,
                       notifications, today, resetCalls, failedResets, inserts,
                       failures>>

\* fetchCurrentCounts of the mount answers with an error
MountFetchFails(c) ==
    \E t \in TasksAt(c, "select") :
        /\ tasks' = tasks \ {t}
        /\ errorMessage' = [errorMessage EXCEPT ![c] = FetchError]
        /\ UNCHANGED <<storeVars, platformVars, aggVars, clock, currentCount,
                       isLoading, showResetConfirm, subscription, isConnected,
                       notifications, today, resetCalls, failedResets, inserts,
                       failures>>

\* two clients have rendered for the first time; no effect has run
InitMount ==
    /\ entries \in InitialTables
    /\ historical_entries = <<>>
    /\ historical_intervals = <<>>
    /\ dst = TRUE
    /\ hourCycle = "h23"
    /\ NoAggregation
    /\ NoPages
    /\ clock = 1205
    /\ currentCount = [c \in Clients |-> ZeroCount]
    /\ errorMessage = [c \in Clients |-> Null]
    /\ isLoading = [c \in Clients |-> FALSE]
    /\ showResetConfirm = [c \in Clients |-> FALSE]
    /\ subscription = [c \in Clients |-> "none"]
    /\ isConnected = [c \in Clients |-> TRUE]
    /\ notifications = [c \in Clients |-> <<>>]
    /\ today = <<>>
    /\ tasks = {}
    /\ inserts = 0
    /\ failures = 0
    /\ resetCalls = 0
    /\ failedResets = {}

NextMount ==
    \E c \in Clients :
        \/ LoggerMount(c)
        \/ CheckConnection(c)
        \/ CheckConnectionFails(c)
        \/ MountFetch(c)
        \/ MountFetchFails(c)
        \/ LoggerOnChange(c)
        \/ \E gender \in Genders, type \in EntryTypes :
              LoggerHandleEntry(c, gender, type)

SpecMount == InitMount /\ [][NextMount]_vars

--------------------------------------------------------------------------
(* The session dashboard (components/Navigation.tsx): fetchIntervalStats   *)
(* gets or creates the session of the selected date before it reads the    *)
(* session's rows.  The store holds the session_start markers only, so the *)
(* rows of a session are always none.                                      *)

\* the page of the session dashboard
Sessions == "sessions"

\* the dates that can be selected
SessionDates == {0, 1}

\* the instants at which the page is used: 15:00, 16:05 and 16:10 EDT of
\* date 1
SessionTimes == {2580, 2645, 2650}

\* runs of fetchIntervalStats in one behaviour
MaxLoads == 3

\* .eq('type', 'session_start').gte('timestamp', startDate)
\* .lte('timestamp', endDate).order('timestamp', {ascending: false}).limit(1):
\* the latest marker between 16:00-04:00 of the date and 03:00-04:00 of the
\* next day, both included, or none
SessionData(date) ==
    LET found == SelectSeq(entries, LAMBDA r :
                     /\ r.type = "session_start"
                     /\ r.timestamp >= WindowStart + date * MinutesPerDay
                     /\ r.timestamp <= WindowEnd + date * MinutesPerDay)
    IN  IF found = <<>> THEN <<>> ELSE <<found[Len(found)]>>

\* `${selectedDate}-${Date.now()}`
NewSessionId(date) == <<date, clock>>

\* a run of fetchIntervalStats with the selectedDate of its render
SessionTask(date) ==
    [id |-> FreeId, client |-> Sessions, step |-> "lookup", date |-> date,
     session |-> <<>>]

\* what the model leaves as it is when the session dashboard acts
sessionFrame == <<historical_entries, historical_intervals, platformVars, clock,
                  clientVars, resetCalls, failedResets, inserts, peakStats,
                  dashLoaded, archStats, archIntervals, dashRuns, authVars>>

\* the page mounts: useState(getTodayInToronto()), and the effect of
\* [selectedDate] calls fetchIntervalStats
SessionMount ==
    /\ Len(sessionLoads) + Cardinality(tasks) < MaxLoads
    /\ selectedDate' = [at |-> clock, date |-> DashboardToday(clock)]
    /\ currentSessionId' = <<>>
    /\ intervalStats' = <<>>
    /\ dashError' = FALSE
    /\ tasks' = tasks \cup {SessionTask(DashboardToday(clock))}
    /\ UNCHANGED <<sessionFrame, entries, sessionLoads, failures>>

\* the date input: setSelectedDate with another date, and the effect calls
\* fetchIntervalStats
SessionSelectDate(date) ==
    /\ selectedDate # <<>>
    /\ date # selectedDate.date
    /\ Len(sessionLoads) + Cardinality(tasks) < MaxLoads
    /\ selectedDate' = [at |-> clock, date |-> date]
    /\ dashError' = FALSE
    /\ tasks' = tasks \cup {SessionTask(date)}
    /\ UNCHANGED <<sessionFrame, entries, currentSessionId, sessionLoads,
                   intervalStats, failures>>

\* the lookup answers with a marker: its session is the active one
SessionFound ==
    \E t \in TasksAt(Sessions, "lookup") :
        /\ SessionData(t.date) # <<>>
        /\ LET activeSessionId == SessionData(t.date)[1].session_id
           IN  /\ currentSessionId' = activeSessionId
               /\ sessionLoads' = Append(sessionLoads,
                                         [date |-> t.date, session |-> activeSessionId])
               /\ tasks' = (tasks \ {t}) \cup
                             {[t EXCEPT !.step = "entries", !.session = activeSessionId]}
        /\ UNCHANGED <<sessionFrame, entries, selectedDate, intervalStats, dashError,
                       failures>>

\* the lookup answers with no marker
SessionNotFound ==
    \E t \in TasksAt(Sessions, "lookup") :
        /\ SessionData(t.date) = <<>>
        /\ tasks' = (tasks \ {t}) \cup {[t EXCEPT !.step = "create"]}
        /\ UNCHANGED <<sessionFrame, entries, selectedDate, currentSessionId,
                       sessionLoads, intervalStats, dashError, failures>>

\* the lookup fails: throw, catch
SessionLookupFails ==
    \E t \in TasksAt(Sessions, "lookup") :
        /\ failures < MaxFailures
        /\ failures' = failures + 1
        /\ dashError' = TRUE
        /\ tasks' = tasks \ {t}
        /\ UNCHANGED <<sessionFrame, entries, selectedDate, currentSessionId,
                       sessionLoads, intervalStats>>

\* no marker was found: a marker with the timestamp of now and a new
\* session id is inserted, and its session is the active one
SessionCreate ==
    \E t \in TasksAt(Sessions, "create") :
        LET newSessionId == NewSessionId(t.date)
        IN  /\ entries' = Append(entries,
                               [id |-> Len(entries) + 1, timestamp |-> clock,
                                type |-> "session_start", gender |-> "system",
                                session_id |-> newSessionId, count_before_reset |-> 0])
            /\ currentSessionId' = newSessionId
            /\ sessionLoads' = Append(sessionLoads,
                                      [date |-> t.date, session |-> newSessionId])
            /\ tasks' = (tasks \ {t}) \cup
                          {[t EXCEPT !.step = "entries", !.session = newSessionId]}
            /\ UNCHANGED <<sessionFrame, selectedDate, intervalStats, dashError,
                           failures>>

\* .eq('session_id', activeSessionId).or('type.eq.entry,type.eq.exit')
SessionRows(session) ==
    SelectSeq(entries, LAMBDA r : r.session_id = session /\ r.type \in EntryTypes)

\* the rows of the session arrive and there are none: setIntervalStats([])
\* and setTotalInside(0), return
SessionEntries ==
    \E t \in TasksAt(Sessions, "entries") :
        /\ SessionRows(t.session) = <<>>
        /\ intervalStats' = <<>>
        /\ tasks' = tasks \ {t}
        /\ UNCHANGED <<sessionFrame, entries, selectedDate, currentSessionId,
                       sessionLoads, dashError, failures>>

\* the page is about to mount on a store without markers, in either season
InitSession ==
    /\ entries = <<>>
    /\ historical_entries = <<>>
    /\ historical_intervals = <<>>
    /\ dst \in BOOLEAN
    /\ hourCycle = "h23"
    /\ NoAggregation
    /\ NoPages
    /\ clock \in SessionTimes
    /\ currentCount = <<>>
    /\ errorMessage = <<>>
    /\ isLoading = <<>>
    /\ showResetConfirm = <<>>
    /\ subscription = <<>>
    /\ isConnected = <<>>
    /\ notifications = <<>>
    /\ today = <<>>
    /\ tasks = {}
    /\ inserts = 0
    /\ failures = 0
    /\ resetCalls = 0
    /\ failedResets = {}

NextSession ==
    \/ Tick(SessionTimes)
    \/ SessionMount
    \/ \E date \in SessionDates : SessionSelectDate(date)
    \/ SessionFound
    \/ SessionNotFound
    \/ SessionLookupFails
    \/ SessionCreate
    \/ SessionEntries

SpecSession == InitSession /\ [][NextSession]_vars

--------------------------------------------------------------------------
(* Reference definitions used by the properties: what the specification   *)
(* of the system says, computed without the operators above               *)

\* venue-local minute of the day of a timestamp
RefLocalMinuteOfDay(ts) == (ts - (IF dst THEN 240 ELSE 300)) % 1440
\* the quarter hour of a timestamp, as <<hour, minute>>
RefQuarter(ts) ==
    <<RefLocalMinuteOfDay(ts) \div 60, ((RefLocalMinuteOfDay(ts) % 60) \div 15) * 15>>
\* minutes from 16:00, the opening of the business day, to a quarter hour
RefChrono(label) == (label[1] * 60 + label[2] + 1440 - 960) % 1440

\* the rows the dashboard's query returns
RefData == SelectSeq(entries, LAMBDA r : r.timestamp >= 1200 /\ r.timestamp < 1860)
\* a row lies in the grid when some bucket carries its quarter hour
RefInGrid(r) == \E k \in 1..Len(intervalStats) : intervalStats[k].interval = RefQuarter(r.timestamp)

RefCount(seq, gender, type, label) ==
    Cardinality({ i \in 1..Len(seq) :
        /\ seq[i].gender = gender
        /\ seq[i].type = type
        /\ RefQuarter(seq[i].timestamp) = label })

\* the sum of a field over the buckets lo..hi
RECURSIVE RefSumOver(_, _, _, _)
RefSumOver(stats, field, lo, hi) ==
    IF lo > hi THEN 0
    ELSE IF lo = hi THEN stats[lo][field]
    ELSE RefSumOver(stats, field, lo, (lo + hi) \div 2)
           + RefSumOver(stats, field, ((lo + hi) \div 2) + 1, hi)

RefSum(stats, field) == RefSumOver(stats, field, 1, Len(stats))

\* net occupancy of a sequence, floored at 0 after every event
RECURSIVE RefFloorNet(_, _)
RefFloorNet(seq, inside) ==
    IF seq = <<>> THEN inside
    ELSE RefFloorNet(Tail(seq),
                     IF Head(seq).type = "entry" THEN inside + 1
                     ELSE IF inside > 0 THEN inside - 1 ELSE 0)

RefMax(stats, field) ==
    CHOOSE m \in { stats[k][field] : k \in 1..Len(stats) } :
        \A k \in 1..Len(stats) : stats[k][field] <= m

\* the label of the chronologically first bucket whose field is m
RefEarliest(stats, field, m) ==
    LET k == CHOOSE i \in 1..Len(stats) :
                /\ stats[i][field] = m
                /\ \A j \in 1..Len(stats) :
                      stats[j][field] = m
                          => RefChrono(stats[i].interval) <= RefChrono(stats[j].interval)
    IN  stats[k].interval

--------------------------------------------------------------------------
(* Properties of fetchIntervalStats, checked under SpecAgg                 *)

\* C2: after every run of fetchIntervalStats that got its rows, the bucket
\* sequence has exactly 44 buckets, whatever the rows, the empty list included.
C2_GridSize44 == dashLoaded => Len(intervalStats) = 44

C5_LastRunningTotal ==
    intervalStats # <<>> =>
        intervalStats[Len(intervalStats)].runningTotal
            = RefFloorNet(SelectSeq(RefData, RefInGrid), 0)

\* C6 as stated: for each of the six categories the peak count is the maximum
\* over the buckets and the peak label is the chronologically first bucket
\* that attains it.
C6_PeakLabelAlwaysBucket ==
    intervalStats # <<>> =>
        \A c \in DOMAIN PeakCategories :
            \A m \in {RefMax(intervalStats, PeakCategories[c])} :
                /\ peakStats[c].count = m
                /\ peakStats[c].time = RefEarliest(intervalStats, PeakCategories[c], m)

\* C6 amended: the peak count is the maximum over the buckets; when it is
\* positive the label is the chronologically first bucket that attains it, and
\* when it is 0 the label is '-'.
C6_PeakIsEarliestMaximum ==
    intervalStats # <<>> =>
        \A c \in DOMAIN PeakCategories :
            \A m \in {RefMax(intervalStats, PeakCategories[c])} :
                /\ peakStats[c].count = m
                /\ m > 0 => peakStats[c].time
                               = RefEarliest(intervalStats, PeakCategories[c], m)
                /\ m = 0 => peakStats[c].time = NoTime

\* two buckets tie for the maximum of total entries and the peak is the first
C6_Witness ==
    /\ intervalStats # <<>>
    /\ peakStats.totalPeakEntries = [count |-> 1, time |-> <<16, 0>>]
    /\ \E k \in 1..Len(intervalStats) :
          /\ intervalStats[k].interval = <<2, 0>>
          /\ intervalStats[k].totalEntries = 1
    /\ peakStats.totalPeakExits.time = NoTime

\* C23: the buckets of every loaded, non-empty result are in strictly
\* increasing chronological order of the business day, which starts at
\* 16:00: every bucket lies later than the one before it, the quarter hours
\* of one hour included.
C23_BucketsChronological ==
    \A k \in 1..(Len(intervalStats) - 1) :
        RefChrono(intervalStats[k].interval) < RefChrono(intervalStats[k + 1].interval)

\* a result with a row after midnight (02:10 EDT) is on the screen
C23_Witness ==
    /\ dst
    /\ dashLoaded
    /\ Len(intervalStats) > 1
    /\ \E k \in 1..Len(intervalStats) :
          intervalStats[k].interval = <<2, 0>> /\ intervalStats[k].totalEntries = 1

--------------------------------------------------------------------------
(* Properties of the archive computation, checked under SpecArch           *)

\* C4: every running_total of the archive's interval breakdown is >= 0, for
\* every order of the events, an Exit before every Entry included.
C4_RunningTotalNonNegative ==
    \A k \in 1..Len(archIntervals) : archIntervals[k].running_total >= 0

\* an exit comes first, entries follow, and the breakdown was computed
C4_Witness ==
    /\ archStats # <<>>
    /\ Len(entries) = 3
    /\ entries[1].type = "exit"
    /\ entries[2].type = "exit"
    /\ entries[3].type = "entry"
    /\ archIntervals[Len(archIntervals)].running_total = 1

--------------------------------------------------------------------------
(* Properties of the archiving Live Counter, checked under Spec            *)

\* C1: in every reachable state of the Live Counter, after any sequence of
\* fetches, record actions, resets and change notifications, the male and
\* the female count of every client are >= 0.
C1_CountNonNegative ==
    \A c \in Clients : currentCount[c].male >= 0 /\ currentCount[c].female >= 0

\* C8: the total_entries and total_exits of every archive summary equal the
\* number of Entry rows and of Exit rows among the rows the reset fetched.
C8_ArchiveTotals ==
    \A i \in 1..Len(historical_entries) :
        LET row == historical_entries[i]
        IN  /\ Len(row.archived) > 0
            /\ row.total_entries
                 = Cardinality({ k \in 1..Len(row.archived) : row.archived[k].type = "entry" })
            /\ row.total_exits
                 = Cardinality({ k \in 1..Len(row.archived) : row.archived[k].type = "exit" })

\* a summary was written for a set holding entries and exits
C8_Witness ==
    \E i \in 1..Len(historical_entries) :
        /\ historical_entries[i].total_entries = 2
        /\ historical_entries[i].total_exits = 1

\* C9: a reset that failed has left no row of its own in historical_entries
\* and none in historical_intervals.
C9_FailedResetLeavesNoArchive ==
    \A f \in failedResets :
        /\ \A i \in 1..Len(historical_entries) :
              historical_entries[i].id # f.historicalEntry
        /\ \A i \in 1..Len(historical_intervals) :
              historical_intervals[i].historical_entry_id # f.historicalEntry

\* C10: the step in which a call of handleReset fails sets the client's
\* errorMessage and leaves its currentCount as it is, and so does every step
\* of the call before it (no step but the successful end changes the count).
C10_FailedResetKeepsCount ==
    [][ /\ \A f \in failedResets' \ failedResets :
              /\ errorMessage'[f.client] # Null
              /\ currentCount'[f.client] = currentCount[f.client]
        /\ \A t \in tasks' \ tasks :
              currentCount'[t.client] = currentCount[t.client] ]_vars

\* a reset has failed after its summary was inserted, the client shows the
\* error and still counts the guests it counted
C10_Witness ==
    \E f \in failedResets :
        /\ f.historicalEntry # 0
        /\ errorMessage[f.client] = ResetError
        /\ currentCount[f.client].male + currentCount[f.client].female = 2

\* the rows some archive summary was computed from
RefArchived ==
    UNION { { historical_entries'[k].archived[a] :
                a \in 1..Len(historical_entries'[k].archived) } :
            k \in 1..Len(historical_entries') }

\* C12: every row that a step removes from entries is among the rows an
\* archive summary was computed from, also when a row was inserted between
\* the fetch of a reset and its delete.
C12_DeletedRowsWereArchived ==
    [][ \A i \in 1..Len(entries) :
            (\A j \in 1..Len(entries') : entries'[j] # entries[i])
                => entries[i] \in RefArchived ]_vars

\* C28: no event is counted in more than one archive summary, also when two
\* resets overlap: no row of entries is among the rows of two summaries.
C28_NoEventArchivedTwice ==
    \A i, j \in 1..Len(historical_entries) :
        i # j =>
            \A k \in 1..Len(historical_entries[i].archived) :
                \A l \in 1..Len(historical_entries[j].archived) :
                    historical_entries[i].archived[k].id
                        # historical_entries[j].archived[l].id

\* the net occupancy of a set of rows, in each way of reading it: entries
\* minus exits, the same floored at zero per gender, and the running count
\* floored at zero after every row
RefOccupancies(rows) ==
    LET entered(g) == Cardinality({ i \in 1..Len(rows) :
                                      rows[i].gender = g /\ rows[i].type = "entry" })
        left(g) == Cardinality({ i \in 1..Len(rows) :
                                   rows[i].gender = g /\ rows[i].type = "exit" })
        scan == ReduceCounts(rows)
    IN  { entered("male") - left("male") + entered("female") - left("female"),
          Max(0, entered("male") - left("male"))
            + Max(0, entered("female") - left("female")),
          scan.male + scan.female }

\* C30: the final_count of every archive summary is the net occupancy of the
\* rows the reset archived, whatever the count of the tab was.
C30_FinalCountIsArchivedNet ==
    \A i \in 1..Len(historical_entries) :
        historical_entries[i].final_count
            \in RefOccupancies(historical_entries[i].archived)

--------------------------------------------------------------------------
(* Properties of the date-scoped Live Counter, checked under SpecDate      *)

\* the business date of an instant with cutover hour 4: the venue's calendar
\* date, or the one before it when the venue's hour is < 4
RefBusinessDate(t) ==
    LET local == t - (IF dst THEN 240 ELSE 300)
    IN  IF (local % 1440) \div 60 < 4 THEN (local \div 1440) - 1 ELSE local \div 1440

\* C7: every date getTodayInToronto has returned and every date handleEntry
\* has written is the previous calendar date when the venue-local hour of the
\* instant is < 4 and the calendar date itself when it is >= 4.
C7_BusinessDateCutover ==
    /\ \A c \in DOMAIN today : today[c].date = RefBusinessDate(today[c].at)
    /\ \A i \in 1..Len(entries) : entries[i].date = RefBusinessDate(entries[i].timestamp)

\* the net count per gender of the rows written on the business date of
\* the present instant
RefNetToday ==
    [g \in Genders |->
        Max(0, Cardinality({ i \in 1..Len(entries) :
                               /\ entries[i].gender = g /\ entries[i].type = "entry"
                               /\ RefBusinessDate(entries[i].timestamp) = RefBusinessDate(clock) })
             - Cardinality({ i \in 1..Len(entries) :
                               /\ entries[i].gender = g /\ entries[i].type = "exit"
                               /\ RefBusinessDate(entries[i].timestamp) = RefBusinessDate(clock) }))]

\* C25: while the tab stays mounted, once the business date is no longer the
\* one the tab mounted with, the count it shows eventually is the net count
\* of the events of the new business date only.
C25_DateChangeRefetches ==
    \A c \in DateClients :
        (RefBusinessDate(clock) # subscription[c])
            ~> (\A g \in Genders : currentCount[c][g] = RefNetToday[g])

\* C19: the default business date of a dashboard that mounts at an instant
\* is the date the logger tags onto the events it writes at that instant.
C19_OneBusinessDateRule ==
    selectedDate # <<>> =>
        \A i \in 1..Len(entries) :
            entries[i].timestamp = selectedDate.at
                => entries[i].date = selectedDate.date

--------------------------------------------------------------------------
(* Properties of the patching Live Counter, checked under SpecLogger       *)

\* C10: when a call of handleReset has failed, the client shows an error
\* and its currentCount is what it was when the reset was attempted.  The
\* statement is taken for the resets with nothing else going on: no
\* notification was waiting and no other call was in flight when the reset
\* was attempted, and no entry or exit was recorded and no reset attempted
\* since.
C10_FailedResetRestoresCount ==
    \A f \in failedResets :
        (f.quiet /\ inserts = f.inserts /\ resetCalls = f.id)
            => /\ errorMessage[f.client] # Null
               /\ currentCount[f.client] = f.before

\* the per-gender net (entries - exits) of a sequence of rows
RefNet(rows) ==
    [g \in Genders |->
        Cardinality({ i \in 1..Len(rows) : rows[i].gender = g /\ rows[i].type = "entry" })
          - Cardinality({ i \in 1..Len(rows) : rows[i].gender = g /\ rows[i].type = "exit" })]

\* the calls of handleReset that end with success in this step
RefSucceeding ==
    { t \in tasks : /\ \A u \in tasks' : u.id # t.id
                    /\ \A f \in failedResets' : f.id # t.id }

\* C11: the step in which a call of handleReset ends with success leaves the
\* client's currentCount at {male: 0, female: 0} and a table whose full
\* reduction is {male: 0, female: 0}.  The statement is taken for the
\* resets with no concurrent writer, started on a count that agreed with
\* the table: no notification was waiting and no other call was in flight
\* when the reset was attempted, and no entry or exit was recorded since.
C11_ResetSuccessZeroesStore ==
    [][ \A t \in RefSucceeding :
            (t.quiet /\ t.before = t.stored /\ inserts' = t.inserts)
                => /\ currentCount'[t.client] = ZeroCount
                   /\ RefNet(entries') = ZeroCount ]_vars

\* C13: while every Live Counter is Disconnected no step writes to the
\* Event Store: no record action and no reset inserts a row.
C13_DisconnectedIssuesNoWrite ==
    [][ (\A c \in DOMAIN isConnected : ~isConnected[c]) => entries' = entries ]_vars

\* the steps in which a record action of client c fails: the only steps
\* that count a failure without ending a call of handleReset
RefRecordFails(c) ==
    /\ failures' = failures + 1
    /\ tasks' = tasks
    /\ errorMessage'[c] = EntryError
    /\ \A d \in Clients \ {c} : errorMessage'[d] = errorMessage[d]

\* the counts a record action pressed on count leaves when its signed
\* delta, clamped at zero, is applied
RefPatched(count) ==
    UNION { { [count EXCEPT ![g] = IF count[g] + d < 0 THEN 0 ELSE count[g] + d] :
                d \in {1} \cup { e \in {-1} : count[g] > 0 } } : g \in Genders }

\* C14 as stated: a record action whose write fails surfaces an error and
\* leaves currentCount with the delta that was applied before the write
\* was issued.
C14_FailedRecordKeepsDelta ==
    [][ \A c \in Clients :
            RefRecordFails(c) => currentCount'[c] \in RefPatched(currentCount[c]) ]_vars

\* C14, as the code has it: the signed delta, clamped at zero, is applied
\* to currentCount in the step in which the write succeeds, on the count
\* the client shows then; a record action whose write fails surfaces an
\* error, writes nothing and leaves currentCount as it was.
C14_RecordPatchesOnSuccessOnly ==
    [][ /\ \A c \in Clients :
              RefRecordFails(c) => /\ currentCount'[c] = currentCount[c]
                                   /\ entries' = entries
        /\ (inserts' = inserts + 1)
              => /\ Len(entries') = Len(entries) + 1
                 /\ \E c \in Clients :
                       LET row == entries'[Len(entries')]
                           d   == IF row.type = "entry" THEN 1 ELSE -1
                           was == currentCount[c][row.gender]
                       IN  /\ errorMessage'[c] = Null
                           /\ currentCount' =
                                 [currentCount EXCEPT ![c][row.gender] =
                                     IF was + d < 0 THEN 0 ELSE was + d] ]_vars

\* a record action has failed on a client that shows a count, after a
\* record action that succeeded
C14_Witness ==
    /\ failures > 0
    /\ inserts > 0
    /\ \E c \in Clients : errorMessage[c] = EntryError /\ currentCount[c] # ZeroCount

--------------------------------------------------------------------------
(* Properties of the archiving Live Counter taken request by request,      *)
(* checked under SpecRefetch                                               *)

\* C27: a tab whose count is the store's net count records one entry and
\* then handles the notification of that insert; the count has risen by
\* exactly 1.  After the record the count is the net count of the store with
\* the new row, so the step that handles the notification of that row must
\* leave the count as it is.
C27_OwnWriteCountedOnce ==
    [][ \A c \in Clients :
            ( /\ notifications[c] # <<>>
              /\ notifications'[c] = Tail(notifications[c])
              /\ Head(notifications[c]) = entries[Len(entries)]
              /\ Head(notifications[c]).type = "entry"
              /\ entries' = entries
              /\ currentCount[c] = RefNet(entries) )
                => currentCount'[c] = currentCount[c] ]_vars

\* nothing is in flight: no request, no response, no notification
RefQuiescent ==
    /\ tasks = {}
    /\ \A c \in Clients : notifications[c] = 0

\* C15: once every insert response, notification and refetch response has
\* been delivered, and none of them was an error, each client's
\* currentCount is the per-gender net (entries - exits) of the table.
C15_QuiescentCountIsStoreNet ==
    (RefQuiescent /\ failures = 0)
        => \A c \in Clients : currentCount[c] = RefNet(entries)

--------------------------------------------------------------------------
(* Properties of the reductions side by side, checked under SpecReduce     *)

\* a component has its rows: its query has answered, without an error
RefFetched(c) ==
    /\ \A t \in tasks : t.client # c
    /\ errorMessage[c] = "null"

\* the rows that stand for a person passing the door
RefPeople(seq) ==
    SelectSeq(seq, LAMBDA r : r.gender \in {"male", "female"}
                                /\ r.type \in {"entry", "exit"})

\* C16: over the same events (every row of the table is a person's entry
\* or exit inside the dashboard's window), the total of the Live Counter,
\* male + female of its full reduction, is the totalInside the dashboard
\* computes.
C16_CounterTotalIsTotalInside ==
    (/\ RefFetched("AdminDashboard")
     /\ intervalStats # <<>>
     /\ RefPeople(entries) = entries
     /\ RefData = entries)
        => currentCount["AdminDashboard"].male + currentCount["AdminDashboard"].female
             = intervalStats[1].runningTotal

\* C17: a row whose gender is not male/female or whose type is not
\* entry/exit changes no count: the current count, the dashboard's
\* totalInside and every bucket are what they are for the table without
\* such rows, and no such row is counted as female or as an exit.
C17_MarkersChangeNoCount ==
    /\ RefFetched("AdminDashboard")
          => currentCount["AdminDashboard"] = RefNet(RefPeople(entries))
    /\ intervalStats # <<>>
          => /\ intervalStats[1].runningTotal = RefFloorNet(RefPeople(RefData), 0)
             /\ \A k \in 1..Len(intervalStats) :
                   LET b == intervalStats[k]
                       people == RefPeople(RefData)
                   IN  /\ b.femaleEntries = RefCount(people, "female", "entry", b.interval)
                       /\ b.femaleExits = RefCount(people, "female", "exit", b.interval)
                       /\ b.maleEntries = RefCount(people, "male", "entry", b.interval)
                       /\ b.maleExits = RefCount(people, "male", "exit", b.interval)
                       /\ b.totalEntries = b.maleEntries + b.femaleEntries
                       /\ b.totalExits = b.maleExits + b.femaleExits

\* C20: the reduction of the patching Live Counter and of the snapshot
\* function, applied to the empty list of rows, is {male: 0, female: 0}.
C20_EmptyListCountsZero ==
    \A c \in {"EntryLogger", "take-snapshot"} :
        (entries = <<>> /\ RefFetched(c))
            => currentCount[c] = [male |-> 0, female |-> 0]

\* both reductions have run on the empty table
C20_Witness ==
    /\ entries = <<>>
    /\ RefFetched("EntryLogger")
    /\ RefFetched("take-snapshot")

--------------------------------------------------------------------------
(* Properties of the pages behind the login, checked under SpecAuth        *)

\* checkAuth got a session and, for the user of that session, a row of
\* admins with the role 'admin'
RefAdminAnswers ==
    /\ adminPage.session \in {"u1", "u2"}
    /\ adminPage.adminData = "admin"

\* C18: AdminPage leaves its loading state, and so renders the dashboard,
\* only when getSession returned a session and the table admins returned a
\* row with role 'admin' for the user of that session, who is signed in and
\* has that role in the table; when checkAuth ends with any other outcome
\* (no session, query error, no row, another role, an exception) the page
\* is still loading and the router has been sent to /login or to /.
C18_DashboardOnlyForAdmins ==
    /\ ~adminPage.isLoading
          => /\ RefAdminAnswers
             /\ authSession = adminPage.session
             /\ admins[authSession] = "admin"
    /\ (adminPage.step = "done" /\ ~RefAdminAnswers)
          => /\ adminPage.isLoading
             /\ route \in {"/login", "/"}

\* an admin has the dashboard on the screen while the table also lists a
\* user with another role
C18_Witness ==
    /\ route = "/admin"
    /\ ~adminPage.isLoading
    /\ \E u \in DOMAIN admins : admins[u] = "staff"

--------------------------------------------------------------------------
(* Properties of the Historical Dashboard on the screen, checked under     *)
(* SpecDash                                                                *)

\* the rows of the window of the selected date
RefDataOf(date) ==
    SelectSeq(entries, LAMBDA r : /\ r.timestamp >= 1200 + 1440 * date
                                  /\ r.timestamp < 1860 + 1440 * date)

\* every run of fetchIntervalStats has been answered, none with an error,
\* and no notification is waiting
RefDashQuiet ==
    /\ tasks = {}
    /\ failures = 0
    /\ \A c \in DOMAIN notifications : notifications[c] = 0

\* C21: the change notifications that arrive in one burst, at one instant,
\* start one run of fetchIntervalStats, not one each.
C21_BurstStartsOneRun ==
    \A i, j \in DOMAIN dashRuns : i # j => dashRuns[i] # dashRuns[j]

\* C22: when every run started by the mount and by the date input has been
\* answered, the buckets on the screen are those of the selected date: none
\* when its window holds no row, and otherwise every bucket counts the rows
\* of its quarter hour in that window.
C22_LateResponseNeverOverwrites ==
    (RefDashQuiet /\ dashRuns = <<>>)
        => LET data == RefDataOf(selectedDate.date)
           IN  IF data = <<>> THEN intervalStats = <<>>
               ELSE /\ intervalStats # <<>>
                    /\ \A k \in 1..Len(intervalStats) :
                          LET b == intervalStats[k]
                          IN  /\ b.maleEntries = RefCount(data, "male", "entry", b.interval)
                              /\ b.femaleEntries = RefCount(data, "female", "entry", b.interval)
                              /\ b.maleExits = RefCount(data, "male", "exit", b.interval)
                              /\ b.femaleExits = RefCount(data, "female", "exit", b.interval)

\* C29: when the dashboard has loaded a date without events, and shows no
\* bucket, every peak on the screen is {count: 0, time: '-'}.
C29_EmptyDateShowsNoPeaks ==
    (/\ RefDashQuiet
     /\ dashLoaded
     /\ intervalStats = <<>>
     /\ RefDataOf(selectedDate.date) = <<>>)
        => \A c \in DOMAIN peakStats : peakStats[c] = [count |-> 0, time |-> <<>>]

--------------------------------------------------------------------------
(* Properties of the mount of the patching Live Counter, checked under     *)
(* SpecMount                                                               *)

\* C24: while the connectivity check of a client has not answered, and
\* after it has failed, the client has no subscription open, and no count
\* fetch of its own is under way unless the check had succeeded before.
C24_FetchOnlyWhenConnected ==
    \A c \in DOMAIN isConnected :
        ((\E t \in tasks : t.client = c /\ t.step = "check") \/ ~isConnected[c])
            => /\ subscription[c] = "none"
               /\ ((\E t \in tasks : t.client = c /\ t.step = "check")
                     => \A t \in tasks : ~(t.client = c /\ t.step = "select"))


--------------------------------------------------------------------------
(* Properties of the session dashboard, checked under SpecSession          *)

\* the session_start markers created for a date
RefMarkersOf(date) ==
    { i \in 1..Len(entries) :
        entries[i].type = "session_start" /\ entries[i].session_id[1] = date }

\* C26: loading a date gets or creates its session idempotently: whatever
\* the number of loads of a date, the store holds at most one session_start
\* marker created for it, and all the loads of the date resolve to one
\* session id.
C26_SessionGetOrCreateIdempotent ==
    /\ \A date \in SessionDates : Cardinality(RefMarkersOf(date)) <= 1
    /\ \A i, j \in DOMAIN sessionLoads :
          sessionLoads[i].date = sessionLoads[j].date
              => sessionLoads[i].session = sessionLoads[j].session

==========================================================================
